---------------------------- MODULE Spec2Model ----------------------------
(***************************************************************************)
(* Model of the vibesafu permission-request pipeline                       *)
(* (src/src/hook.ts processPermissionRequest and the guards it calls).     *)
(*                                                                         *)
(* A shell command is a sequence of words (tokens).  The raw string is the *)
(* words joined by single blanks; the word NL stands for a newline         *)
(* character (so it is white space for \s and is not matched by '.').      *)
(* Every regular expression of the source that can match some command      *)
(* over the vocabulary below is translated into a predicate on the word    *)
(* sequence; a regular expression whose literal text needs a word outside  *)
(* the vocabulary matches no modelled command and is left out.  All words  *)
(* are lower case, so the /i flag of the source makes no difference.       *)
(***************************************************************************)
EXTENDS Naturals, Integers, Sequences, FiniteSets, TLC

VARIABLES
    pc,          \* position of the run: start, triage_wait, review_wait, done (the
                 \* handler has returned), threw (it has thrown), timer, exited
    input,       \* PermissionRequestInput: [tool_name, command]
    config,      \* vibesafuConfig: trustedDomains, customPatterns, allowedMCPTools
    hasClient,   \* anthropicClient !== undefined
    checkpoint,  \* the handler's checkpoint of step 6 (NoCheckpoint when not reached or none)
    triageReply, \* what client.messages.create produced for the triage call
    triage,      \* TriageResult
    reviewReply, \* what client.messages.create produced for the review call
    review,      \* ReviewResult
    result,      \* ProcessResult
    calls,       \* remote calls issued so far, in order
    stdin,       \* what runHook reads: empty, garbage, the JSON null, a JSON object
    stdout,      \* documents written by console.log, in order
    stderr,      \* lines written to stderr, in order
    timer,       \* << seconds >> once runHook has armed its setTimeout, else << >>
    exitCode,    \* << code >> once the process has exited, else << >>
    sanitized,   \* the sanitizer on its own: the text handed on from pass to pass
    passes,      \* the sanitizer on its own: the passes of sanitizeForPrompt made
    regexSource, \* safeRegexTest on its own: the characters of the custom pattern
    regexOutcome \* safeRegexTest on its own: untested, threw, skipped or applied

vars == <<pc, input, config, hasClient, checkpoint, triageReply, triage,
          reviewReply, review, result, calls, stdin, stdout, stderr, timer, exitCode,
          sanitized, passes, regexSource, regexOutcome>>

-----------------------------------------------------------------------------
(* Bounds *)

\* a command is at most MaxSegments simple commands joined by separators
MaxSegments == 2

-----------------------------------------------------------------------------
(* Words and commands *)

NL == "\n"

U_API   == "https://api.github.com/users/octocat"
U_RAW   == "https://raw.githubusercontent.com/u/r/main/s.sh"
U_EVIL  == "https://evil.com/x"
U_SHORT == "https://bit.ly/x"
U_SHORT_SUBDOMAIN == "https://go.bit.ly/x"

\* the simple commands a request is composed of
SimpleCommands ==
    { <<"git", "status">>,
      <<"git", "log", "xmrig">>,
      <<"git", "commit">>,
      <<"git", "add">>,
      <<"git", "tag">>,
      <<"git", "remote", "add">>,
      <<"git", "push">>,
      <<"git", "push", "pre-approved">>,
      <<"xmrig">>,
      <<"rm", "-rf", "/">>,
      <<"curl", U_API>>,
      <<"curl", U_RAW>>,
      <<"curl", U_EVIL>>,
      <<"curl", U_SHORT>>,
      <<"curl", U_SHORT_SUBDOMAIN>>,
      <<"bash">>,
      <<"pip", "install", "pkg">>,
      <<"cat", ".env">>,
      <<"echo", "$(x)">>,
      <<"ls">> }

\* what may stand between two simple commands
Separators == { ";", "&&", "|", NL }

RECURSIVE CommandsOf(_)
CommandsOf(n) ==
    IF n = 1 THEN SimpleCommands
    ELSE LET shorter == CommandsOf(n - 1)
         IN  shorter \cup
             { c \o <<s>> \o d : c \in shorter, s \in Separators, d \in SimpleCommands }

\* the empty command and the white-space-only command are inputs too
Commands == CommandsOf(MaxSegments) \cup { <<>>, <<NL>> }


-----------------------------------------------------------------------------
(* Regular-expression building blocks on word sequences *)

\* \s matches the blank between two words and the newline word
IsWhitespace(w) == w = NL

\* String.prototype.trim: leading and trailing white space removed
RECURSIVE TrimLeft(_)
TrimLeft(cmd) ==
    IF cmd # <<>> /\ IsWhitespace(Head(cmd)) THEN TrimLeft(Tail(cmd)) ELSE cmd

RECURSIVE TrimRight(_)
TrimRight(cmd) ==
    IF cmd # <<>> /\ IsWhitespace(cmd[Len(cmd)])
    THEN TrimRight(SubSeq(cmd, 1, Len(cmd) - 1))
    ELSE cmd

Trim(cmd) == TrimRight(TrimLeft(cmd))

\* X\s+Y with X the word at i and Y the word at j: only white space between
OnlyWhitespaceBetween(cmd, i, j) ==
    i < j /\ \A k \in (i + 1)..(j - 1) : IsWhitespace(cmd[k])

\* X.*Y: '.' does not match a newline, so no newline between the two words
SameLine(cmd, i, j) ==
    i < j /\ \A k \in (i + 1)..(j - 1) : ~IsWhitespace(cmd[k])

\* X\s+.*Y: a run of white space, then text of one line
WhitespaceThenLine(cmd, i, j) ==
    i < j /\ \A k, l \in (i + 1)..(j - 1) :
                 (k < l /\ IsWhitespace(cmd[l])) => IsWhitespace(cmd[k])

\* X.*\s+Y: text of one line, then a run of white space
LineThenWhitespace(cmd, i, j) ==
    i < j /\ \A k, l \in (i + 1)..(j - 1) :
                 (k < l /\ IsWhitespace(cmd[k])) => IsWhitespace(cmd[l])

\* /a\s+b/ for two whole words a and b
WordThenWord(cmd, a, b) ==
    \E i, j \in 1..Len(cmd) :
        cmd[i] = a /\ cmd[j] = b /\ OnlyWhitespaceBetween(cmd, i, j)

Contains(cmd, w) == \E i \in 1..Len(cmd) : cmd[i] = w

-----------------------------------------------------------------------------
(* guard/instant-allow.ts *)

SAFE_GIT_COMMANDS ==
    { "status", "log", "diff", "add", "commit", "branch", "checkout", "stash",
      "fetch", "pull", "merge", "rebase", "show", "blame", "remote", "tag",
      "cherry-pick", "reflog", "shortlog", "describe", "rev-parse", "ls-files",
      "ls-tree" }

\* a back-quoted command substitution (the back quote itself cannot be written
\* in a string of this notation)
BACKQUOTED == "<bq>x<bq>"

\* the words that contain one of the characters ; & | back-quote or the text $(
ChainingWords == { ";", "&&", "||", "|", BACKQUOTED, "$(x)" }

\* the chaining test of line 61 on the trimmed command, then /^git\s+/
isPureGitCommand(command) ==
    LET trimmed == Trim(command)
    IN  IF \E i \in 1..Len(trimmed) : trimmed[i] \in ChainingWords
        THEN FALSE
        ELSE Len(trimmed) >= 2 /\ trimmed[1] = "git"

\* DANGEROUS_GIT_PATTERNS: git\s+push, git\s+reset\s+--hard,
\* git\s+clean\s+-[a-z]*f, git\s+.*--force, git\s+.*-f\b
isDangerousGitCommand(command) ==
    \/ WordThenWord(command, "git", "push")
    \/ \E i, j, k \in 1..Len(command) :
           /\ command[i] = "git" /\ command[j] = "reset" /\ command[k] = "--hard"
           /\ OnlyWhitespaceBetween(command, i, j)
           /\ OnlyWhitespaceBetween(command, j, k)
    \/ \E i, j, k \in 1..Len(command) :
           /\ command[i] = "git" /\ command[j] = "clean" /\ command[k] = "-f"
           /\ OnlyWhitespaceBetween(command, i, j)
           /\ OnlyWhitespaceBetween(command, j, k)
    \/ \E i, j \in 1..Len(command) :
           /\ command[i] = "git" /\ command[j] \in { "--force", "-f" }
           /\ WhitespaceThenLine(command, i, j)

\* /^git\s+(\S+)/ on the command as given (not trimmed), group 1 in the list
isSafeGitSubcommand(command) ==
    /\ Len(command) >= 2
    /\ command[1] = "git"
    /\ \E j \in 2..Len(command) :
           /\ OnlyWhitespaceBetween(command, 1, j)
           /\ ~IsWhitespace(command[j])
           /\ command[j] \in SAFE_GIT_COMMANDS

checkInstantAllow(command) ==
    IF Trim(command) = <<>> THEN FALSE
    ELSE IF ~isPureGitCommand(command) THEN FALSE
    ELSE IF isDangerousGitCommand(command) THEN FALSE
    ELSE isSafeGitSubcommand(command)

-----------------------------------------------------------------------------
(* config/patterns.ts: INSTANT_BLOCK_PATTERNS *)

\* words in which the text "|" occurs last, so that \|\s*X can continue
PipeWords == { "|", "||" }

\* /\benv\b.*\|\s*curl/ (DATA_EXFIL_PATTERNS, env_pipe_curl): ".env" is the
\* only word in which env stands between two word boundaries
env_pipe_curl(command) ==
    \E i, j, k \in 1..Len(command) :
        /\ command[i] = ".env"
        /\ command[j] \in PipeWords /\ SameLine(command, i, j)
        /\ command[k] = "curl" /\ OnlyWhitespaceBetween(command, j, k)

\* /xmrig/ (CRYPTO_MINING_PATTERNS)
xmrig(command) == Contains(command, "xmrig")

\* /rm\s+(-[a-zA-Z]*f[a-zA-Z]*\s+)*-[a-zA-Z]*r[a-zA-Z]*.*\s+\/(\s|$|;|&)/
\* (DESTRUCTIVE_PATTERNS, rm_rf_root)
rm_rf_root(command) ==
    \E i, j, k \in 1..Len(command) :
        /\ command[i] = "rm"
        /\ command[j] = "-rf" /\ OnlyWhitespaceBetween(command, i, j)
        /\ command[k] = "/" /\ LineThenWhitespace(command, j, k)

\* the corpus in the order of INSTANT_BLOCK_PATTERNS: reverse shell, data
\* exfiltration, crypto mining, obfuscated execution, destructive,
\* self-protection
INSTANT_BLOCK_PATTERNS == << "env_pipe_curl", "xmrig", "rm_rf_root" >>

PatternTest(name, command) ==
    CASE name = "env_pipe_curl" -> env_pipe_curl(command)
      [] name = "xmrig"         -> xmrig(command)
      [] name = "rm_rf_root"    -> rm_rf_root(command)

PatternSeverity(name) == "critical"

NoPattern == "<none>"

\* guard/instant-block.ts checkHighRiskPatterns, the corpus given: the first
\* pattern that matches
checkHighRiskPatternsIn(patterns, command) ==
    IF Trim(command) = <<>> THEN [detected |-> FALSE, patternName |-> NoPattern]
    ELSE LET hits == { n \in 1..Len(patterns) : PatternTest(patterns[n], command) }
         IN  IF hits = {} THEN [detected |-> FALSE, patternName |-> NoPattern]
             ELSE [detected |-> TRUE,
                   patternName |-> patterns[CHOOSE n \in hits : \A m \in hits : n <= m]]

checkHighRiskPatterns(command) == checkHighRiskPatternsIn(INSTANT_BLOCK_PATTERNS, command)

-----------------------------------------------------------------------------
(* config/domains.ts *)

\* new URL(url).hostname, as the sequence of the host's labels
extractHostname(url) ==
    CASE url = U_API   -> << "api", "github", "com" >>
      [] url = U_RAW   -> << "raw", "githubusercontent", "com" >>
      [] url = U_EVIL  -> << "evil", "com" >>
      [] url = U_SHORT -> << "bit", "ly" >>
      [] url = U_SHORT_SUBDOMAIN -> << "go", "bit", "ly" >>

UrlWords == { U_API, U_RAW, U_EVIL, U_SHORT, U_SHORT_SUBDOMAIN }

URL_SHORTENERS ==
    { <<"bit", "ly">>, <<"tinyurl", "com">>, <<"t", "co">>, <<"goo", "gl">>,
      <<"ow", "ly">>, <<"is", "gd">>, <<"buff", "ly">>, <<"adf", "ly">>,
      <<"j", "mp">>, <<"tr", "im">>, <<"short", "io">>, <<"rebrand", "ly">>,
      <<"cutt", "ly">>, <<"shorturl", "at">>, <<"tiny", "cc">>, <<"bc", "vc">>,
      <<"v", "gd">>, <<"x", "co">> }

TRUSTED_DOMAINS ==
    { <<"npmjs", "com">>, <<"registry", "npmjs", "org">>, <<"yarnpkg", "com">>,
      <<"pypi", "org">>, <<"pypa", "io">>, <<"crates", "io">>,
      <<"rubygems", "org">>, <<"packagist", "org">>,
      <<"github", "com">>, <<"raw", "githubusercontent", "com">>,
      <<"gist", "github", "com">>, <<"objects", "githubusercontent", "com">>,
      <<"gitlab", "com">>, <<"bitbucket", "org">>,
      <<"bun", "sh">>, <<"deno", "land">>, <<"nodejs", "org">>, <<"rustup", "rs">>,
      <<"get", "docker", "com">>, <<"download", "docker", "com">>,
      <<"brew", "sh">>, <<"formulae", "brew", "sh">>,
      <<"storage", "googleapis", "com">>, <<"azure", "microsoft", "com">>,
      <<"unpkg", "com">>, <<"cdn", "jsdelivr", "net">>,
      <<"cdnjs", "cloudflare", "com">>,
      <<"vercel", "com">>, <<"vercel", "sh">> }

\* RISKY_SUBDOMAIN_PATTERNS of the form /\.<domain>$/ (the three S3 patterns
\* with a region in the label are matched by no host of the model)
RISKY_SUBDOMAIN_PATTERNS ==
    { <<"s3", "amazonaws", "com">>, <<"github", "io">>, <<"vercel", "app">>,
      <<"netlify", "app">>, <<"pages", "dev">>, <<"onrender", "com">>,
      <<"up", "railway", "app">>, <<"herokuapp", "com">>, <<"gitlab", "io">>,
      <<"web", "app">>, <<"firebaseapp", "com">> }

\* host ends with "." + domain
IsSubdomainOf(host, domain) ==
    /\ Len(host) > Len(domain)
    /\ SubSeq(host, Len(host) - Len(domain) + 1, Len(host)) = domain

isRiskySubdomain(hostname) ==
    \E d \in RISKY_SUBDOMAIN_PATTERNS : IsSubdomainOf(hostname, d)

isDomainTrusted(hostname) ==
    IF isRiskySubdomain(hostname) THEN FALSE
    ELSE \E domain \in TRUSTED_DOMAINS :
             hostname = domain \/ IsSubdomainOf(hostname, domain)

isTrustedUrl(url) == isDomainTrusted(extractHostname(url))

\* /https?:\/\/[^\s"'<>]+/g: the URL words of the command, in order (no URL of
\* the model ends in one of the characters ) , ; . that are stripped)
extractUrls(command) == SelectSeq(command, LAMBDA w : w \in UrlWords)

\* isUrlShortener, were only the listed host itself a shortener
isUrlShortener_ExactHost(hostname) == hostname \in URL_SHORTENERS

isUrlShortener(hostname) ==
    \E shortener \in URL_SHORTENERS :
        hostname = shortener \/ IsSubdomainOf(hostname, shortener)

isShortenerUrl(url) == isUrlShortener(extractHostname(url))

containsUrlShortener(command) ==
    SelectSeq(extractUrls(command), isShortenerUrl) # <<>>

\* RISKY_URL_PATTERNS: /raw\.githubusercontent\.com/ and
\* /objects\.githubusercontent\.com/ on the host; the gist-raw,
\* releases/download and /get.<name>.sh patterns need a path no URL of the
\* model has
isRiskyUrlPattern(url) ==
    LET host == extractHostname(url)
    IN  \E d \in { <<"raw", "githubusercontent", "com">>,
                   <<"objects", "githubusercontent", "com">> } :
            host = d \/ IsSubdomainOf(host, d)

-----------------------------------------------------------------------------
(* guard/trusted-domain.ts *)

checkTrustedDomains(command) ==
    LET urls == extractUrls(command)
        untrustedUrls == SelectSeq(urls, LAMBDA u : ~isTrustedUrl(u))
        riskyUrls == SelectSeq(urls, isRiskyUrlPattern)
    IN  [ allTrusted   |-> untrustedUrls = <<>>,
          hasRiskyUrls |-> riskyUrls # <<>>,
          urls         |-> urls ]

-----------------------------------------------------------------------------
(* config/patterns.ts CHECKPOINT_PATTERNS and guard/checkpoint.ts *)

\* /curl\s+.*\|\s*(ba)?sh/
curl_piped_to_shell(command) ==
    \E i, j, k \in 1..Len(command) :
        /\ command[i] = "curl"
        /\ command[j] \in PipeWords /\ WhitespaceThenLine(command, i, j)
        /\ command[k] = "bash" /\ OnlyWhitespaceBetween(command, j, k)

\* /curl\s+.*?(https?:\/\/[^\s"']+)/
curl_http_request(command) ==
    \E i, j \in 1..Len(command) :
        /\ command[i] = "curl"
        /\ command[j] \in UrlWords /\ WhitespaceThenLine(command, i, j)

\* /\.env(?:\.local|\.production|\.development)?(?:\s|$|["'])/
env_file_access(command) == Contains(command, ".env")

\* the patterns in the order of the list, each with its type
CHECKPOINT_PATTERNS ==
    << [pattern |-> "curl_piped_to_shell", type |-> "script_execution"],
       [pattern |-> "curl_http_request",   type |-> "network"],
       [pattern |-> "pip_install",         type |-> "package_install"],
       [pattern |-> "git_push",            type |-> "git_operation"],
       [pattern |-> "git_commit",          type |-> "git_operation"],
       [pattern |-> "git_add",             type |-> "git_operation"],
       [pattern |-> "env_file_access",     type |-> "env_modification"] >>

CheckpointTest(name, command) ==
    CASE name = "curl_piped_to_shell" -> curl_piped_to_shell(command)
      [] name = "curl_http_request"   -> curl_http_request(command)
      [] name = "pip_install"         -> WordThenWord(command, "pip", "install")
      [] name = "git_push"            -> WordThenWord(command, "git", "push")
      [] name = "git_commit"          -> WordThenWord(command, "git", "commit")
      [] name = "git_add"             -> WordThenWord(command, "git", "add")
      [] name = "env_file_access"     -> env_file_access(command)

NoCheckpoint == [type |-> "<none>", description |-> "<none>"]

\* detectCheckpoint, the list of patterns given
detectCheckpointIn(patterns, command) ==
    IF Trim(command) = <<>> THEN NoCheckpoint
    ELSE IF containsUrlShortener(command)
    THEN [type |-> "url_shortener", description |-> "URL shortener detected"]
    ELSE LET hits == { n \in 1..Len(patterns) : CheckpointTest(patterns[n].pattern, command) }
         IN  IF hits = {} THEN NoCheckpoint
             ELSE LET first == CHOOSE n \in hits : \A m \in hits : n <= m
                  IN  [type |-> patterns[first].type,
                       description |-> patterns[first].pattern]

detectCheckpoint(command) == detectCheckpointIn(CHECKPOINT_PATTERNS, command)

-----------------------------------------------------------------------------
(* guard/file-tools.ts *)

\* A file path is a sequence of tokens: the separator "/" and the names
\* between separators ("~", "$HOME" and "${HOME}" are names).
SEP == "/"

\* ways of writing the home directory in front of a file below it
HomePrefixes ==
    { << "~", SEP >>,
      << "$HOME", SEP >>,
      << "${HOME}", SEP >>,
      << "~", SEP, SEP >>,
      << SEP, "home", SEP, "user", SEP >>,
      << "~", SEP, "proj", SEP, "..", SEP >> }

\* files below the home directory
HomeTargets ==
    { << ".ssh", SEP, "id_rsa" >>,
      << ".ssh", SEP, "authorized_keys" >>,
      << ".ssh", SEP, "config" >>,
      << ".aws", SEP, "credentials" >>,
      << ".bashrc" >>,
      << ".zshrc" >>,
      << ".npmrc" >>,
      << ".netrc" >>,
      << ".env" >>,
      << ".claude", SEP, "settings.json" >>,
      << ".claude", SEP, "crontab" >>,
      << ".gnupg", SEP, "private-keys", SEP, "backup.env" >>,
      << ".gnupg", SEP, "pubring.kbx" >>,
      << ".docker", SEP, "config.json" >>,
      << "proj", SEP, ".env.local" >>,
      << "proj", SEP, ".git", SEP, "hooks", SEP, "pre-commit" >>,
      << "vibesafu", SEP, ".git", SEP, "hooks", SEP, "pre-commit" >>,
      << "certs", SEP, "server.pem" >>,
      << "notes.txt" >> }

\* paths that are not written relative to the home directory
OtherPaths ==
    { << SEP, "etc", SEP, "passwd" >>,
      << SEP, "etc", SEP, "shadow" >>,
      << SEP, "usr", SEP, "bin", SEP, "tool" >>,
      << SEP, "var", SEP, "spool", SEP, "cron", SEP, "root" >>,
      << SEP, "tmp", SEP, "notes.txt" >>,
      << ".env" >>,
      << "src", SEP, "index.ts" >>,
      << >> }

FilePaths == { p \o t : p \in HomePrefixes, t \in HomeTargets } \cup OtherPaths

\* normalizePath: $HOME and ${HOME} become ~, a run of slashes becomes one
RECURSIVE CollapseSlashes(_)
CollapseSlashes(path) ==
    IF Len(path) < 2 THEN path
    ELSE IF path[1] = SEP /\ path[2] = SEP THEN CollapseSlashes(Tail(path))
    ELSE << path[1] >> \o CollapseSlashes(Tail(path))

normalizePath(filePath) ==
    CollapseSlashes([ i \in 1..Len(filePath) |->
                        IF filePath[i] \in { "$HOME", "${HOME}" } THEN "~" ELSE filePath[i] ])

\* the text of name ends with (starts with) the text of the pattern's token
EndsWithText(name, text) ==
    \/ name = text
    \/ << name, text >> \in { << "backup.env", ".env" >>, << "server.pem", ".pem" >> }

StartsWithText(name, text) == name = text

ContainsText(name, text) == name = text

\* ^~?\/?X : an optional ~, an optional slash, then the tokens of X
AfterHome(path) ==
    LET a == IF path # <<>> /\ path[1] = "~" THEN Tail(path) ELSE path
    IN  { a } \cup (IF a # <<>> /\ a[1] = SEP THEN { Tail(a) } ELSE {})

IsPrefixOf(x, path) == Len(x) <= Len(path) /\ SubSeq(path, 1, Len(x)) = x

\* X at the tokens i .. i + Len(X) - 1, the first token of X being the end
\* of a name and the last token of X the start of a name
OccursAt(x, path, i) ==
    /\ i >= 1 /\ i + Len(x) - 1 <= Len(path)
    /\ EndsWithText(path[i], x[1])
    /\ \A k \in 2..(Len(x) - 1) : path[i + k - 1] = x[k]
    /\ Len(x) > 1 => StartsWithText(path[i + Len(x) - 1], x[Len(x)])

\* X$ : X occurs at the end, its last token being a whole name
OccursAtEnd(x, path) ==
    LET i == Len(path) - Len(x) + 1
    IN  /\ i >= 1
        /\ EndsWithText(path[i], x[1])
        /\ \A k \in 2..Len(x) : path[i + k - 1] = x[k]

\* pattern.test(normalized) for the shapes of pattern in the two lists
PathTest(entry, path) ==
    CASE entry.kind = "home_prefix" -> \E a \in AfterHome(path) : IsPrefixOf(entry.x, a)
      [] entry.kind = "home_exact"  -> \E a \in AfterHome(path) : a = entry.x
      [] entry.kind = "prefix"      -> IsPrefixOf(entry.x, path)
      [] entry.kind = "exact"       -> path = entry.x
      [] entry.kind = "suffix"      -> OccursAtEnd(entry.x, path)
      [] entry.kind = "contains"    -> \E i \in 1..Len(path) : OccursAt(entry.x, path, i)
      [] entry.kind = "text"        -> \E i \in 1..Len(path) : ContainsText(path[i], entry.x[1])

SensitivePath(kind, x, description, severity) ==
    [ kind |-> kind, x |-> x, description |-> description, severity |-> severity ]

\* the write set, in the order of the list (vibesafu?\/ is written with its u)
WRITE_SENSITIVE_PATHS ==
    << SensitivePath("home_prefix", << ".ssh", SEP >>, "SSH directory", "critical"),
       SensitivePath("suffix", << ".ssh", SEP, "authorized_keys" >>, "SSH authorized_keys", "critical"),
       SensitivePath("suffix", << ".ssh", SEP, "config" >>, "SSH config", "critical"),
       SensitivePath("home_prefix", << ".aws", SEP >>, "AWS credentials directory", "critical"),
       SensitivePath("home_prefix", << ".azure", SEP >>, "Azure credentials directory", "critical"),
       SensitivePath("home_prefix", << ".gcloud", SEP >>, "GCloud credentials directory", "critical"),
       SensitivePath("home_prefix", << ".config", SEP, "gcloud", SEP >>, "GCloud config directory", "critical"),
       SensitivePath("home_prefix", << ".gnupg", SEP >>, "GPG directory", "critical"),
       SensitivePath("prefix", << SEP, "etc", SEP >>, "System /etc directory", "critical"),
       SensitivePath("prefix", << SEP, "usr", SEP >>, "System /usr directory", "critical"),
       SensitivePath("prefix", << SEP, "bin", SEP >>, "System /bin directory", "critical"),
       SensitivePath("prefix", << SEP, "sbin", SEP >>, "System /sbin directory", "critical"),
       SensitivePath("home_exact", << ".bashrc" >>, "Bash startup file", "high"),
       SensitivePath("home_exact", << ".bash_profile" >>, "Bash profile", "high"),
       SensitivePath("home_exact", << ".zshrc" >>, "Zsh startup file", "high"),
       SensitivePath("home_exact", << ".zprofile" >>, "Zsh profile", "high"),
       SensitivePath("home_exact", << ".profile" >>, "Shell profile", "high"),
       SensitivePath("home_exact", << ".bash_logout" >>, "Bash logout script", "high"),
       SensitivePath("home_exact", << ".zlogout" >>, "Zsh logout script", "high"),
       SensitivePath("text", << "crontab" >>, "Crontab file", "high"),
       SensitivePath("prefix", << SEP, "var", SEP, "spool", SEP, "cron", SEP >>, "Cron spool directory", "high"),
       SensitivePath("contains", << ".git", SEP, "hooks", SEP >>, "Git hooks directory", "high"),
       SensitivePath("home_exact", << ".npmrc" >>, "NPM config (may contain tokens)", "high"),
       SensitivePath("home_exact", << ".pypirc" >>, "PyPI config (may contain tokens)", "high"),
       SensitivePath("home_prefix", << ".claude", SEP >>, "Claude config directory", "critical"),
       SensitivePath("suffix", << ".claude", SEP, "settings.json" >>, "Claude Code settings", "critical"),
       SensitivePath("contains", << "vibesafu", SEP >>, "vibesafu directory", "critical") >>

\* the read set, in the order of the list
READ_SENSITIVE_PATHS ==
    << SensitivePath("suffix", << ".ssh", SEP, "id_rsa" >>, "SSH private key (RSA)", "critical"),
       SensitivePath("suffix", << ".ssh", SEP, "id_ed25519" >>, "SSH private key (Ed25519)", "critical"),
       SensitivePath("suffix", << ".ssh", SEP, "id_ecdsa" >>, "SSH private key (ECDSA)", "critical"),
       SensitivePath("suffix", << ".ssh", SEP, "id_dsa" >>, "SSH private key (DSA)", "critical"),
       SensitivePath("suffix", << ".pem" >>, "PEM private key", "critical"),
       SensitivePath("suffix", << ".key" >>, "Private key file", "critical"),
       SensitivePath("suffix", << ".aws", SEP, "credentials" >>, "AWS credentials", "critical"),
       SensitivePath("suffix", << ".azure", SEP, "credentials" >>, "Azure credentials", "critical"),
       SensitivePath("suffix", << ".env" >>, "Environment file", "high"),
       SensitivePath("suffix", << ".env.local" >>, "Local environment file", "high"),
       SensitivePath("suffix", << ".env.production" >>, "Production environment file", "high"),
       SensitivePath("suffix", << ".env.development" >>, "Development environment file", "high"),
       SensitivePath("exact", << SEP, "etc", SEP, "shadow" >>, "System shadow file", "critical"),
       SensitivePath("exact", << SEP, "etc", SEP, "passwd" >>, "System passwd file", "high"),
       SensitivePath("suffix", << ".netrc" >>, "Netrc credentials", "critical"),
       SensitivePath("suffix", << ".docker", SEP, "config.json" >>, "Docker config (may contain tokens)", "high"),
       SensitivePath("contains", << ".gnupg", SEP, "private-keys" >>, "GPG private keys", "critical") >>

NoFileCheck == [ blocked |-> FALSE, reason |-> "", severity |-> "<none>" ]

\* the loop of checkFilePath over one list: the first entry that matches
FirstSensitive(list, normalized) ==
    LET hits == { n \in 1..Len(list) : PathTest(list[n], normalized) }
    IN  IF hits = {} THEN 0 ELSE CHOOSE n \in hits : \A m \in hits : n <= m

\* checkFilePath, the two path sets given
checkFilePathIn(readPaths, writePaths, filePath, action) ==
    LET normalized == normalizePath(filePath)
        list  == IF action = "read" THEN readPaths ELSE writePaths
        first == FirstSensitive(list, normalized)
        verb  == CASE action = "read"  -> "Reading "
                   [] action = "write" -> "Writing to "
                   [] action = "edit"  -> "Editing "
    IN  IF first = 0 THEN NoFileCheck
        ELSE [ blocked  |-> TRUE,
               reason   |-> verb \o list[first].description,
               severity |-> list[first].severity ]

checkFilePath(filePath, action) ==
    checkFilePathIn(READ_SENSITIVE_PATHS, WRITE_SENSITIVE_PATHS, filePath, action)

\* checkFileTool: filePath is << >> when toolInput.file_path is absent or ""
checkFileTool(toolName, filePath) ==
    IF filePath = <<>> THEN NoFileCheck
    ELSE CASE toolName = <<"Write">> -> checkFilePath(filePath, "write")
           [] toolName = <<"Edit">>  -> checkFilePath(filePath, "edit")
           [] toolName = <<"Read">>  -> checkFilePath(filePath, "read")
           [] OTHER                  -> NoFileCheck

-----------------------------------------------------------------------------
(* utils/sanitize.ts *)

\* PROMPT_INJECTION_PATTERNS: /pre-?approved/ is the one a modelled word matches
containsPromptInjection(command) == Contains(command, "pre-approved")

\* /\|\s*(ba)?sh/
pipe_to_shell(command) ==
    \E j, k \in 1..Len(command) :
        /\ command[j] \in PipeWords
        /\ command[k] = "bash" /\ OnlyWhitespaceBetween(command, j, k)

\* /curl.*\|/
curl_piped(command) ==
    \E i, j \in 1..Len(command) :
        command[i] = "curl" /\ command[j] \in PipeWords /\ SameLine(command, i, j)

\* FORCE_ESCALATE_PATTERNS: pipe to shell, curl piped, $(...) substitution,
\* back-quote substitution, .env
FORCE_ESCALATE_PATTERNS(command) ==
    \/ pipe_to_shell(command)
    \/ curl_piped(command)
    \/ Contains(command, "$(x)")
    \/ Contains(command, BACKQUOTED)
    \/ Contains(command, ".env")

shouldForceEscalate(command) ==
    IF containsPromptInjection(command) THEN TRUE
    ELSE FORCE_ESCALATE_PATTERNS(command)

\* sanitizeForPrompt works on the characters of the command: here a text is
\* a sequence of characters (NL is the newline)
MAX_COMMAND_LENGTH == 2000

\* '... [truncated]'
TruncationMarker ==
    << ".", ".", ".", " ", "[", "t", "r", "u", "n", "c", "a", "t", "e", "d", "]" >>

\* s.replace(/]]>/g, ']]&gt;') on the characters lo..hi of s: the > that
\* closes a ]]> becomes &gt;
RECURSIVE BreakCdataEnds(_, _, _)
BreakCdataEnds(s, lo, hi) ==
    IF lo > hi THEN << >>
    ELSE IF lo = hi
    THEN IF lo >= 3 /\ s[lo - 2] = "]" /\ s[lo - 1] = "]" /\ s[lo] = ">"
         THEN << "&", "g", "t", ";" >> ELSE << s[lo] >>
    ELSE LET mid == (lo + hi) \div 2
         IN  BreakCdataEnds(s, lo, mid) \o BreakCdataEnds(s, mid + 1, hi)

\* s.replace(/\n{3,}/g, '\n\n') on the characters lo..hi of s: a newline
\* that follows two newlines is dropped
RECURSIVE NormalizeNewlines(_, _, _)
NormalizeNewlines(s, lo, hi) ==
    IF lo > hi THEN << >>
    ELSE IF lo = hi
    THEN IF lo >= 3 /\ s[lo] = NL /\ s[lo - 1] = NL /\ s[lo - 2] = NL THEN << >> ELSE << s[lo] >>
    ELSE LET mid == (lo + hi) \div 2
         IN  NormalizeNewlines(s, lo, mid) \o NormalizeNewlines(s, mid + 1, hi)

sanitizeForPrompt(command) ==
    LET truncated == IF Len(command) > MAX_COMMAND_LENGTH
                     THEN SubSeq(command, 1, MAX_COMMAND_LENGTH) \o TruncationMarker
                     ELSE command
        broken    == BreakCdataEnds(truncated, 1, Len(truncated))
    IN  NormalizeNewlines(broken, 1, Len(broken))

\* the text made of n copies of unit
Repeat(unit, n) ==
    [ i \in 1..(n * Len(unit)) |-> unit[((i - 1) % Len(unit)) + 1] ]

\* the commands handed to sanitizeForPrompt: repeated letters, CDATA ends
\* and newlines, up to and beyond the clamp, and what may follow them
SanitizerInputs ==
    { Repeat(unit, n) \o tail :
        unit \in { << "a" >>, << "]", "]", ">" >>, << NL >>, << "a", NL, NL, NL >> },
        n    \in { 0, 1, 3, 499, 500, 501, 666, 667, 1997, 1999, 2000, 2001 },
        tail \in { << >>, << "a" >>, << "]", "]", ">" >>, << NL, NL, NL, "b", "b", "b" >>,
                   << "]", "]" >> } }

\* the number of times the sanitizer is applied to its own output
MaxPasses == 2

-----------------------------------------------------------------------------
(* The remote LLM: what client.messages.create can produce *)

\* A reply is a thrown error with its message, or a text.  A text is a
\* sequence of pieces: an opening brace, a closing brace, text that is no
\* JSON, or one "key": value member of a JSON object.
Piece(k, v) == [k |-> k, v |-> v]
LB   == Piece("{", "")
RB   == Piece("}", "")
JUNK == Piece("junk", "")

IsMember(piece) == piece.k \notin { "{", "}", "junk" }

Threw(message) == [threw |-> TRUE,  message |-> message, text |-> <<>>]
Said(text)     == [threw |-> FALSE, message |-> "",      text |-> text]

NoReply == [threw |-> FALSE, message |-> "<no call>", text |-> <<>>]

\* messages of errors thrown by the call: the abort of the timeout controller,
\* a connection timeout, anything else
ErrorMessages == { "Request was aborted.", "socket timeout", "API rate limit" }

\* errorMessage.includes('abort') || errorMessage.includes('timeout')
IsTimeoutMessage(message) == message \in { "Request was aborted.", "socket timeout" }

TriageTexts ==
    { <<>>,
      << JUNK >>,
      << LB, JUNK, RB >>,
      << LB, Piece("reason", "r"), RB >>,
      << LB, Piece("classification", "MAYBE"), RB >>,
      << LB, Piece("classification", "SELF_HANDLE"), Piece("reason", "r"), RB >>,
      << LB, Piece("classification", "SELF_HANDLE"), RB >>,
      << LB, Piece("classification", "ESCALATE"), Piece("risk_indicators", "x"), RB >>,
      << LB, Piece("classification", "BLOCK"), Piece("reason", "r"), RB >>,
      << JUNK, LB, Piece("classification", "SELF_HANDLE"), RB, JUNK >>,
      << LB, Piece("classification", "SELF_HANDLE"), RB, JUNK, LB, JUNK, RB >> }

TriageReplies == { Threw(m) : m \in ErrorMessages } \cup { Said(t) : t \in TriageTexts }

ReviewTexts ==
    { <<>>,
      << JUNK >>,
      << LB, JUNK, RB >>,
      << LB, Piece("risk_level", "low"), RB >>,
      << LB, Piece("verdict", "MAYBE"), Piece("risk_level", "low"), RB >>,
      << LB, Piece("verdict", "ALLOW"), Piece("intent", "i"), RB >>,
      << LB, Piece("verdict", "ALLOW"), Piece("intent", ""), RB >>,
      << LB, Piece("verdict", "BLOCK"), Piece("risk_level", "critical"),
         Piece("user_message", "m"), RB >>,
      << LB, Piece("verdict", "ASK_USER"), Piece("intent", ""), RB >>,
      << LB, Piece("verdict", "ASK_USER"), Piece("user_message", "m"), RB >>,
      << LB, Piece("verdict", "ALLOW"), RB, JUNK, LB, JUNK, RB >> }

ReviewReplies == { Threw(m) : m \in ErrorMessages } \cup { Said(t) : t \in ReviewTexts }

\* text.match(/\{[\s\S]*\}/): from the first opening brace to the last
\* closing brace; <<>> when there is no match
GreedyBraceMatch(text) ==
    LET opens  == { i \in 1..Len(text) : text[i] = LB }
        closes == { i \in 1..Len(text) : text[i] = RB }
    IN  IF opens = {} \/ closes = {} THEN <<>>
        ELSE LET first == CHOOSE i \in opens : \A j \in opens : i <= j
                 last  == CHOOSE i \in closes : \A j \in closes : i >= j
             IN  IF first < last THEN SubSeq(text, first, last) ELSE <<>>

\* JSON.parse succeeds on { member, ..., member }
JsonParses(s) ==
    /\ Len(s) >= 2
    /\ s[1] = LB
    /\ s[Len(s)] = RB
    /\ \A i \in 2..(Len(s) - 1) : IsMember(s[i])

Absent == "<absent>"

\* parsed.key of the parsed object (the last member of that key wins)
Member(s, key) ==
    LET at == { i \in 1..Len(s) : s[i].k = key }
    IN  IF at = {} THEN Absent
        ELSE s[CHOOSE i \in at : \A j \in at : i >= j].v

\* utils/sanitize.ts, extractJsonFromText: the whole text as JSON, else the
\* first balanced { ... } found by counting depth, parsed; <<>> for null (no
\* text of the model holds a fenced code block or a brace inside a string)
extractJsonFromText(text) ==
    IF JsonParses(text) THEN text
    ELSE LET opens == { i \in 1..Len(text) : text[i] = LB }
         IN  IF opens = {} THEN <<>>
             ELSE LET startIdx == CHOOSE i \in opens : \A j \in opens : i <= j
                      depth(i) == Cardinality({ k \in startIdx..i : text[k] = LB })
                                    - Cardinality({ k \in startIdx..i : text[k] = RB })
                      ends == { i \in startIdx..Len(text) : text[i] = RB /\ depth(i) = 0 }
                  IN  IF ends = {} THEN <<>>
                      ELSE LET candidate ==
                                   SubSeq(text, startIdx, CHOOSE i \in ends : \A j \in ends : i <= j)
                           IN  IF JsonParses(candidate) THEN candidate ELSE <<>>

-----------------------------------------------------------------------------
(* guard/haiku-triage.ts *)

FORCE_ESCALATE_TYPES_Empty == {}

FORCE_ESCALATE_TYPES == { "package_install" }

NoTriage == [classification |-> "<none>", reason |-> "", riskIndicators |-> <<>>]

\* the result returned before any call is made, for a type that is always escalated
ForcedTriageResult(cp) ==
    [ classification |-> "ESCALATE",
      reason         |-> "Package installation requires Sonnet review (supply chain risk)",
      riskIndicators |-> << "force_escalate_type", cp.type >> ]

TriageFailed_Block(reason, indicator) ==
    [ classification |-> "BLOCK",
      reason         |-> "Triage failed: " \o reason,
      riskIndicators |-> << indicator >> ]

TriageFailed(reason, indicator) ==
    [ classification |-> "ESCALATE",
      reason         |-> "Triage failed: " \o reason,
      riskIndicators |-> << indicator >> ]

\* the catch block
TriageCaught(message) ==
    IF IsTimeoutMessage(message)
    THEN TriageFailed("API timeout", "triage_timeout")
    ELSE TriageFailed(message, "triage_error")

RiskIndicatorsOf(parsed) ==
    IF Member(parsed, "risk_indicators") = Absent THEN <<>>
    ELSE << Member(parsed, "risk_indicators") >>

\* the post-response validation: SELF_HANDLE on a command with risky patterns
PostResponseOverride_Never(classification, command) == FALSE

PostResponseOverride(classification, command) ==
    classification = "SELF_HANDLE" /\ shouldForceEscalate(command)

\* triageWithHaiku from the point where client.messages.create has settled
triageWithHaiku(command, reply) ==
    IF reply.threw THEN TriageCaught(reply.message)
    ELSE IF reply.text = <<>>
    THEN TriageFailed("Empty response from Haiku", "triage_error")
    ELSE LET jsonMatch == GreedyBraceMatch(reply.text)
         IN  IF jsonMatch = <<>>
             THEN TriageFailed("Could not parse JSON response", "triage_error")
             ELSE IF ~JsonParses(jsonMatch)
             THEN TriageCaught("Unexpected token in JSON")
             ELSE LET classification == Member(jsonMatch, "classification")
                  IN  IF classification \notin { "SELF_HANDLE", "ESCALATE", "BLOCK" }
                      THEN TriageFailed("Invalid classification in response", "triage_error")
                      ELSE IF PostResponseOverride(classification, command)
                      THEN [ classification |-> "ESCALATE",
                             reason |-> "Auto-escalated: Command contains patterns requiring deeper review",
                             riskIndicators |-> << "forced_escalation" >> \o RiskIndicatorsOf(jsonMatch) ]
                      ELSE [ classification |-> classification,
                             reason |-> IF Member(jsonMatch, "reason") = Absent
                                        THEN "No reason provided"
                                        ELSE Member(jsonMatch, "reason"),
                             riskIndicators |-> RiskIndicatorsOf(jsonMatch) ]

-----------------------------------------------------------------------------
(* guard/sonnet-review.ts *)

NoReview == [verdict |-> "<none>", riskLevel |-> "", reason |-> "", userMessage |-> Absent]

FallbackMessage == "Automated security review failed. Please review this operation manually."

TimeoutMessage == "Security review timed out. Please review this operation manually."

ReviewFailed(reason, userMessage) ==
    [ verdict     |-> "ASK_USER",
      riskLevel   |-> "medium",
      reason      |-> "Review failed: " \o reason,
      userMessage |-> userMessage ]

\* the catch block
ReviewCaught(message) ==
    IF IsTimeoutMessage(message)
    THEN ReviewFailed("API timeout", TimeoutMessage)
    ELSE ReviewFailed(message, FallbackMessage)

\* reviewWithSonnet from the point where client.messages.create has settled
reviewWithSonnet(reply) ==
    IF reply.threw THEN ReviewCaught(reply.message)
    ELSE IF reply.text = <<>>
    THEN ReviewFailed("Empty response from Sonnet", FallbackMessage)
    ELSE LET jsonMatch == GreedyBraceMatch(reply.text)
         IN  IF jsonMatch = <<>>
             THEN ReviewFailed("Could not parse JSON response", FallbackMessage)
             ELSE IF ~JsonParses(jsonMatch)
             THEN ReviewCaught("Unexpected token in JSON")
             ELSE LET verdict == IF Member(jsonMatch, "verdict") = Absent
                                 THEN "ASK_USER"
                                 ELSE Member(jsonMatch, "verdict")
                  IN  IF verdict \notin { "ALLOW", "ASK_USER", "BLOCK" }
                      THEN ReviewFailed("Invalid verdict in response", FallbackMessage)
                      ELSE [ verdict   |-> verdict,
                             riskLevel |-> IF Member(jsonMatch, "risk_level") = Absent
                                           THEN "medium"
                                           ELSE Member(jsonMatch, "risk_level"),
                             reason    |-> IF Member(jsonMatch, "intent") = Absent
                                           THEN "Review completed"
                                           ELSE Member(jsonMatch, "intent"),
                             \* if (parsed.user_message): set only when truthy
                             userMessage |-> IF Member(jsonMatch, "user_message") \in { Absent, "" }
                                             THEN Absent
                                             ELSE Member(jsonMatch, "user_message") ]

-----------------------------------------------------------------------------
(* hook.ts *)

TIMEOUT_SECONDS == 7

PLAN_MODE_TIMEOUT_SECONDS == 72 * 60 * 60

SAFE_NON_BASH_TOOLS ==
    { <<"WebFetch">>, <<"WebSearch">>, <<"Task">>, <<"Glob">>, <<"Grep">>, <<"LS">>,
      <<"TodoRead">>, <<"TodoWrite">>, <<"NotebookRead">> }

\* custom pattern sources of the model: two literals, one pattern with a
\* nested quantifier, one that does not compile
InvalidPatternSources == { "(" }

NestedQuantifierSources == { "(a+)+" }

\* safeRegexTest: new RegExp throws -> false; nested quantifier -> false;
\* otherwise the pattern is tested (no modelled command exceeds the clamp of
\* REGEX_TIMEOUT_MS * 40 characters)
safeRegexTest(pattern, command) ==
    IF pattern \in InvalidPatternSources THEN FALSE
    ELSE IF pattern \in NestedQuantifierSources THEN FALSE
    ELSE Contains(command, pattern)

\* the loop over a list of custom patterns, were no pattern ever to match
FirstMatching_None(list, command) == 0

\* for (const pattern of list) if (safeRegexTest(pattern, command)) return ...
FirstMatching(list, command) ==
    LET hits == { n \in 1..Len(list) : safeRegexTest(list[n], command) }
    IN  IF hits = {} THEN 0 ELSE CHOOSE n \in hits : \A m \in hits : n <= m

DEFAULT_CONFIG ==
    [ trustedDomains  |-> <<>>,
      customPatterns  |-> [allow |-> <<>>, block |-> <<>>],
      allowedMCPTools |-> <<>> ]

Configs ==
    { DEFAULT_CONFIG,
      [ trustedDomains  |-> << << "evil", "com" >> >>,
        customPatterns  |-> [allow |-> << "(a+)+", "xmrig" >>, block |-> <<>>],
        allowedMCPTools |-> << <<"mcp", "memory", "*">> >> ],
      [ trustedDomains  |-> <<>>,
        customPatterns  |-> [allow |-> <<>>, block |-> << "(", "curl" >>],
        allowedMCPTools |-> <<>> ],
      [ trustedDomains  |-> <<>>,
        customPatterns  |-> [allow |-> << "bash" >>, block |-> << "(a+)+", "curl" >>],
        allowedMCPTools |-> <<>> ] }

\* tool names, split at "__"
BashTool == << "Bash" >>

OtherTools ==
    { <<"ExitPlanMode">>, <<"mcp", "memory", "create_entities">>,
      <<"mcp", "github", "create_issue">>, <<"WebFetch">>, <<"Frobnicate">> }

FileTools == { <<"Write">>, <<"Edit">>, <<"Read">> }

NotebookEdit == <<"NotebookEdit">>

NotebookPaths ==
    { << "~", SEP, ".bashrc" >>, << "$HOME", SEP, ".ssh", SEP, "config" >>,
      << "analysis.ipynb" >>, << >> }

\* A field of the request is absent, a string, or a value that is neither
\* (a number such as 5); tool_input is absent or an object.  The value of a
\* field that is not a string is written << >>.
Fields(tool_name, tool_input, command, file_path, notebook_path) ==
    [ tool_name |-> tool_name, tool_input |-> tool_input, command |-> command,
      file_path |-> file_path, notebook_path |-> notebook_path ]

Request(has, tool_name, command, file_path, notebook_path) ==
    [ has |-> has, tool_name |-> tool_name, command |-> command,
      file_path |-> file_path, notebook_path |-> notebook_path ]

WellFormedRequests ==
    { Request(Fields("string", "object", "string", "absent", "absent"), BashTool, c, <<>>, <<>>) :
        c \in Commands } \cup
    { Request(Fields("string", "object", "absent", "absent", "absent"), t, <<>>, <<>>, <<>>) :
        t \in OtherTools } \cup
    { Request(Fields("string", "object", "absent", "string", "absent"), t, <<>>, p, <<>>) :
        t \in FileTools, p \in FilePaths } \cup
    { Request(Fields("string", "object", "absent", "absent", "string"), NotebookEdit, <<>>, <<>>, p) :
        p \in NotebookPaths }

\* requests that lack a field or carry a value of another type in it
MalformedRequests ==
    { Request(Fields(k, "object", "absent", "absent", "absent"), <<>>, <<>>, <<>>, <<>>) :
        k \in { "absent", "number" } } \cup
    { Request(Fields("string", "absent", "absent", "absent", "absent"), t, <<>>, <<>>, <<>>) :
        t \in { BashTool, NotebookEdit, <<"ExitPlanMode">>, <<"WebFetch">> } \cup FileTools } \cup
    { Request(Fields("string", "object", k, "absent", "absent"), BashTool, <<>>, <<>>, <<>>) :
        k \in { "absent", "number" } } \cup
    { Request(Fields("string", "object", "absent", k, "absent"), t, <<>>, <<>>, <<>>) :
        t \in FileTools, k \in { "absent", "number" } } \cup
    { Request(Fields("string", "object", "absent", "absent", k), NotebookEdit, <<>>, <<>>, <<>>) :
        k \in { "absent", "number" } }

Requests == WellFormedRequests \cup MalformedRequests

\* the value of input when stdin does not hold a JSON object
NoInput ==
    Request(Fields("absent", "absent", "absent", "absent", "absent"), <<>>, <<>>, <<>>, <<>>)

\* an allowedMCPTools entry ending in * matches by prefix, any other exactly
McpPatternMatches(pattern, name) ==
    IF pattern # <<>> /\ pattern[Len(pattern)] = "*"
    THEN /\ Len(name) >= Len(pattern) - 1
         /\ SubSeq(name, 1, Len(pattern) - 1) = SubSeq(pattern, 1, Len(pattern) - 1)
    ELSE name = pattern

NoResult ==
    [ decision |-> "<none>", reason |-> "", source |-> "<none>",
      checkpoint |-> NoCheckpoint, userMessage |-> Absent, timeoutSeconds |-> <<>> ]

\* a ProcessResult; an optional field that is not set is Absent (userMessage),
\* NoCheckpoint (checkpoint) or <<>> (timeoutSeconds)
ProcessResult(decision, reason, source) ==
    [ decision |-> decision, reason |-> reason, source |-> source,
      checkpoint |-> NoCheckpoint, userMessage |-> Absent, timeoutSeconds |-> <<>> ]

\* steps 1 and 2a, were only a critical match answered with needs-review
FileCheckResult_HighAllowed(fileCheck, allowReason) ==
    IF fileCheck.blocked /\ fileCheck.severity = "critical"
    THEN [ ProcessResult("needs-review", "[SENSITIVE FILE] " \o fileCheck.reason, "high-risk")
           EXCEPT !.userMessage = "[SENSITIVE FILE] " \o fileCheck.reason \o " (Auto-reject)" ]
    ELSE ProcessResult("allow", allowReason, "non-bash-tool")

\* steps 1 and 2a: the answer to a file check
FileCheckResult(fileCheck, allowReason) ==
    LET severityLabel == IF fileCheck.severity = "critical"
                         THEN "[SENSITIVE FILE] " ELSE "[CAUTION] "
    IN  IF fileCheck.blocked
        THEN [ ProcessResult("needs-review", severityLabel \o fileCheck.reason, "high-risk")
               EXCEPT !.userMessage = severityLabel \o fileCheck.reason \o " (Auto-reject)" ]
        ELSE ProcessResult("allow", allowReason, "non-bash-tool")

\* step 1 of processPermissionRequest: Write, Edit and Read
FileTool(req) ==
    FileCheckResult(checkFileTool(req.tool_name, req.file_path), "File tool with safe path")

\* step 2 of processPermissionRequest: tools other than Bash and the file tools
NonBashTool(req, cfg) ==
    IF req.tool_name = NotebookEdit
    THEN FileCheckResult(checkFileTool(<<"Edit">>, req.notebook_path),
                         "NotebookEdit with safe path")
    ELSE IF req.tool_name = <<"ExitPlanMode">>
    THEN [ ProcessResult("needs-review", "Plan mode exit requires user approval",
                         "non-bash-tool")
           EXCEPT !.userMessage = "[PLAN APPROVAL REQUIRED]",
                  !.timeoutSeconds = << PLAN_MODE_TIMEOUT_SECONDS >> ]
    ELSE IF req.tool_name[1] = "mcp" /\ Len(req.tool_name) > 1
    THEN IF \E n \in 1..Len(cfg.allowedMCPTools) :
                McpPatternMatches(cfg.allowedMCPTools[n], req.tool_name)
         THEN ProcessResult("allow", "MCP tool is pre-approved in config", "non-bash-tool")
         ELSE [ ProcessResult("needs-review", "MCP tool requires approval", "non-bash-tool")
                EXCEPT !.userMessage = "[MCP TOOL]" ]
    ELSE IF req.tool_name \in SAFE_NON_BASH_TOOLS
    THEN ProcessResult("allow", "Safe tool", "non-bash-tool")
    ELSE [ ProcessResult("needs-review", "Unknown tool requires approval", "non-bash-tool")
           EXCEPT !.userMessage = "[UNKNOWN TOOL]" ]

\* step 7: the test for the trusted-domain short cut
TrustedShortCircuit_AnyType(cp, domainResult) ==
    domainResult.allTrusted /\ Len(domainResult.urls) > 0

TrustedShortCircuit(cp, domainResult) ==
    /\ cp.type = "network"
    /\ domainResult.allTrusted
    /\ Len(domainResult.urls) > 0

\* step 8 without a client
CheckpointResult_Bare(cp) ==
    ProcessResult("needs-review",
                  "Checkpoint triggered: " \o cp.type \o " - " \o cp.description,
                  "checkpoint")

CheckpointResult(cp) ==
    [ ProcessResult("needs-review",
                    "Checkpoint triggered: " \o cp.type \o " - " \o cp.description,
                    "checkpoint")
      EXCEPT !.checkpoint = cp ]

\* steps 3 to 5 return before the checkpoint is looked for
ReturnsBeforeCheckpoint(command, cfg) ==
    \/ FirstMatching(cfg.customPatterns.allow, command) # 0
    \/ FirstMatching(cfg.customPatterns.block, command) # 0
    \/ checkInstantAllow(command)
    \/ checkHighRiskPatterns(command).detected

\* A Bash request without a command: every safeRegexTest is false (reading
\* input.length throws inside its try), and steps 4 to 6 each find !command
AbsentCommand ==
    ProcessResult("allow", "No security checkpoint triggered", "no-checkpoint")

\* The property accesses and method calls of processPermissionRequest that
\* raise a TypeError: on input that is null, on a tool_name that is not a
\* string (startsWith), on an absent tool_input (file_path, notebook_path,
\* command), and on a path or command that is neither absent nor a string
\* (replace, trim; no custom pattern of the model matches such a value)
Throws(value, req) ==
    \/ value = "null"
    \/ req.has.tool_name # "string"
    \/ /\ req.has.tool_input = "absent"
       /\ req.tool_name \in FileTools \cup { NotebookEdit, BashTool }
    \/ req.tool_name \in FileTools /\ req.has.file_path = "number"
    \/ req.tool_name = NotebookEdit /\ req.has.notebook_path = "number"
    \/ req.tool_name = BashTool /\ req.has.command = "number"

\* the warnings safeRegexTest writes while one list of custom patterns is
\* tried: one for each pattern with a nested quantifier up to the first hit
SkippedPatterns(list, command) ==
    LET hit     == FirstMatching(list, command)
        tried   == SubSeq(list, 1, IF hit = 0 THEN Len(list) ELSE hit)
        Skipped(pattern) ==
            pattern \notin InvalidPatternSources /\ pattern \in NestedQuantifierSources
    IN  SelectSeq(tried, Skipped)

\* the lines of step 3, were the block list tried whatever the allow list gave
CustomPatternWarnings_BothLists(req, cfg) ==
    IF req.tool_name # BashTool \/ req.has.tool_name # "string" \/ req.has.tool_input = "absent"
    THEN <<>>
    ELSE SkippedPatterns(cfg.customPatterns.allow, req.command) \o
         SkippedPatterns(cfg.customPatterns.block, req.command)

\* the lines that step 3 writes to stderr
CustomPatternWarnings(req, cfg) ==
    IF req.tool_name # BashTool \/ req.has.tool_name # "string" \/ req.has.tool_input = "absent"
    THEN <<>>
    ELSE SkippedPatterns(cfg.customPatterns.allow, req.command) \o
         ( IF FirstMatching(cfg.customPatterns.allow, req.command) # 0 THEN <<>>
           ELSE SkippedPatterns(cfg.customPatterns.block, req.command) )

\* steps 3 to 8 (up to the test for a client) for a Bash command, the corpus
\* and the checkpoint patterns given: the result, or NoResult when the LLM
\* review is to be entered
BashBeforeReviewIn(highRiskPatterns, checkpointPatterns, command, cfg, client) ==
    LET allowHit  == FirstMatching(cfg.customPatterns.allow, command)
        blockHit  == FirstMatching(cfg.customPatterns.block, command)
        highRisk  == checkHighRiskPatternsIn(highRiskPatterns, command)
        cp        == detectCheckpointIn(checkpointPatterns, command)
        domainResult == checkTrustedDomains(command)
    IN  IF allowHit # 0
        THEN ProcessResult("allow", "Custom allow pattern: " \o cfg.customPatterns.allow[allowHit],
                           "instant-allow")
        ELSE IF blockHit # 0
        THEN [ ProcessResult("needs-review",
                             "Custom block pattern: " \o cfg.customPatterns.block[blockHit],
                             "high-risk")
               EXCEPT !.userMessage = "[CUSTOM BLOCK]" ]
        ELSE IF checkInstantAllow(command)
        THEN ProcessResult("allow", "Safe git command", "instant-allow")
        ELSE IF highRisk.detected
        THEN [ ProcessResult("needs-review",
                             (IF PatternSeverity(highRisk.patternName) = "critical"
                              THEN "[HIGH RISK] " ELSE "[CAUTION] ") \o highRisk.patternName,
                             "high-risk")
               EXCEPT !.userMessage = "Potential risk" ]
        ELSE IF cp = NoCheckpoint
        THEN ProcessResult("allow", "No security checkpoint triggered", "no-checkpoint")
        ELSE IF TrustedShortCircuit(cp, domainResult)
        THEN ProcessResult("allow", "All URLs from trusted domains", "trusted-domain")
        ELSE IF ~client
        THEN CheckpointResult(cp)
        ELSE NoResult

BashBeforeReview(command, cfg, client) ==
    BashBeforeReviewIn(INSTANT_BLOCK_PATTERNS, CHECKPOINT_PATTERNS, command, cfg, client)

\* the mapping of the triage result (hook.ts lines 306-320); NoResult on ESCALATE
AfterTriage_AlwaysReview(t) == NoResult

AfterTriage(t) ==
    IF t.classification = "BLOCK"
    THEN ProcessResult("deny", "Blocked by Haiku: " \o t.reason, "haiku")
    ELSE IF t.classification = "SELF_HANDLE"
    THEN ProcessResult("allow", "Approved by Haiku: " \o t.reason, "haiku")
    ELSE NoResult

\* the mapping of the review result (hook.ts lines 326-356)
AfterReview_AlwaysAllow(r, cp) ==
    ProcessResult("allow", "Approved by Sonnet: " \o r.reason, "sonnet")

AfterReview(r, cp) ==
    IF r.verdict = "BLOCK"
    THEN [ ProcessResult("deny", "Blocked by Sonnet: " \o r.reason, "sonnet")
           EXCEPT !.userMessage = r.userMessage ]
    ELSE IF r.verdict = "ALLOW"
    THEN ProcessResult("allow", "Approved by Sonnet: " \o r.reason, "sonnet")
    ELSE [ ProcessResult("needs-review", r.reason, "sonnet")
           EXCEPT !.checkpoint = cp, !.userMessage = r.userMessage ]

\* runHook: result.timeoutSeconds ?? TIMEOUT_SECONDS
EffectiveTimeout_AlwaysDefault(r) == TIMEOUT_SECONDS

EffectiveTimeout(r) ==
    IF r.timeoutSeconds = <<>> THEN TIMEOUT_SECONDS ELSE r.timeoutSeconds[1]

\* runHook: what stdin holds
StdinKinds == { "empty", "garbage", "null", "object" }

\* JSON.parse succeeds on the JSON null and on a JSON object
JsonParseSucceeds(text) == text \in { "null", "object" }

\* createHookOutput: the document, message Absent when none is given
createHookOutput(decision, message) == [ behavior |-> decision, message |-> message ]

\* runHook: result.userMessage ?? result.reason
WarningMessage(r) == IF r.userMessage = Absent THEN r.reason ELSE r.userMessage

\* runHook: the unit of the displayed timeout
TimeoutUnit(timeout) == IF timeout >= 3600 THEN "h" ELSE "s"

DenyMessage(r) ==
    "Auto-denied (no response in " \o TimeoutUnit(EffectiveTimeout(r)) \o ") Reason: "
        \o WarningMessage(r)

-----------------------------------------------------------------------------
(* The request as a state machine *)

Init ==
    /\ pc = "start"
    /\ stdin \in StdinKinds
    /\ input \in IF stdin = "object" THEN Requests ELSE { NoInput }
    /\ stdout = <<>>
    /\ stderr = <<>>
    /\ timer = <<>>
    /\ exitCode = <<>>
    /\ sanitized = <<>>
    /\ passes = 0
    /\ regexSource = <<>>
    /\ regexOutcome = "untested"
    /\ config \in Configs
    /\ hasClient \in BOOLEAN
    /\ checkpoint = NoCheckpoint
    /\ triageReply = NoReply
    /\ triage = NoTriage
    /\ reviewReply = NoReply
    /\ review = NoReview
    /\ result = NoResult
    /\ calls = <<>>

\* runHook when JSON.parse throws: the deny document, and the run ends
RejectInput ==
    /\ pc = "start"
    /\ UNCHANGED <<sanitized, passes, regexSource, regexOutcome>>
    /\ ~JsonParseSucceeds(stdin)
    /\ stdout' = Append(stdout, createHookOutput("deny", "Invalid JSON input"))
    /\ exitCode' = << 0 >>
    /\ pc' = "exited"
    /\ UNCHANGED <<input, config, hasClient, checkpoint, triageReply, triage,
                   reviewReply, review, result, calls, stdin, stderr, timer>>

\* runHook from JSON.parse on, and processPermissionRequest up to its first
\* await of a remote call, to its return when no call is made, or to the
\* TypeError it raises
Process ==
    /\ pc = "start"
    /\ UNCHANGED <<sanitized, passes, regexSource, regexOutcome>>
    /\ JsonParseSucceeds(stdin)
    /\ IF Throws(stdin, input)
       THEN /\ pc' = "threw"
            /\ stderr' = stderr \o CustomPatternWarnings(input, config)
            /\ UNCHANGED <<result, checkpoint, triage, calls>>
       ELSE IF input.tool_name \in FileTools
       THEN /\ result' = FileTool(input)
            /\ pc' = "done"
            /\ UNCHANGED <<checkpoint, triage, calls, stderr>>
       ELSE IF input.tool_name # BashTool
       THEN /\ result' = NonBashTool(input, config)
            /\ pc' = "done"
            /\ UNCHANGED <<checkpoint, triage, calls, stderr>>
       ELSE IF input.has.command = "absent"
       THEN /\ result' = AbsentCommand
            /\ pc' = "done"
            /\ stderr' = stderr \o CustomPatternWarnings(input, config)
            /\ UNCHANGED <<checkpoint, triage, calls>>
       ELSE LET local == BashBeforeReview(input.command, config, hasClient)
                cp    == IF ReturnsBeforeCheckpoint(input.command, config)
                         THEN NoCheckpoint
                         ELSE detectCheckpoint(input.command)
                warnings == CustomPatternWarnings(input, config)
            IN  IF local # NoResult
                THEN /\ result' = local
                     /\ pc' = "done"
                     /\ checkpoint' = cp
                     /\ stderr' = stderr \o warnings
                     /\ UNCHANGED <<triage, calls>>
                ELSE /\ checkpoint' = cp
                     /\ result' = NoResult
                     /\ IF cp.type \in FORCE_ESCALATE_TYPES
                        THEN \* triageWithHaiku returns at once; the review call is issued
                             /\ triage' = ForcedTriageResult(cp)
                             /\ calls' = Append(calls, "review")
                             /\ stderr' = stderr \o warnings \o
                                            << "Assessing security risks", "Escalating to deep analysis" >>
                             /\ pc' = "review_wait"
                        ELSE /\ triage' = triage
                             /\ calls' = Append(calls, "triage")
                             /\ stderr' = stderr \o warnings \o << "Assessing security risks" >>
                             /\ pc' = "triage_wait"
    /\ UNCHANGED <<input, config, hasClient, triageReply, reviewReply, review,
                   stdin, stdout, timer, exitCode>>

\* the triage call settles: triageWithHaiku returns, and the handler either
\* returns or issues the review call
TriageResponds ==
    /\ pc = "triage_wait"
    /\ UNCHANGED <<sanitized, passes, regexSource, regexOutcome>>
    /\ \E reply \in TriageReplies :
         LET t == triageWithHaiku(input.command, reply)
         IN  /\ triageReply' = reply
             /\ triage' = t
             /\ result' = AfterTriage(t)
             /\ IF AfterTriage(t) # NoResult
                THEN pc' = "done" /\ calls' = calls /\ stderr' = stderr
                ELSE /\ pc' = "review_wait"
                     /\ calls' = Append(calls, "review")
                     /\ stderr' = Append(stderr, "Escalating to deep analysis")
    /\ UNCHANGED <<input, config, hasClient, checkpoint, reviewReply, review,
                   stdin, stdout, timer, exitCode>>

\* the review call settles: reviewWithSonnet returns and the handler returns
ReviewResponds ==
    /\ pc = "review_wait"
    /\ UNCHANGED <<sanitized, passes, regexSource, regexOutcome>>
    /\ \E reply \in ReviewReplies :
         LET r == reviewWithSonnet(reply)
         IN  /\ reviewReply' = reply
             /\ review' = r
             /\ result' = AfterReview(r, checkpoint)
    /\ pc' = "done"
    /\ UNCHANGED <<input, config, hasClient, checkpoint, triageReply, triage, calls,
                   stdin, stdout, stderr, timer, exitCode>>

\* runHook after processPermissionRequest has returned, were the deny
\* document written at once
Answer_DenyAtOnce ==
    /\ pc = "done"
    /\ stdout' = Append(stdout, IF result.decision = "allow"
                                THEN createHookOutput("allow", Absent)
                                ELSE createHookOutput("deny", DenyMessage(result)))
    /\ exitCode' = << 0 >>
    /\ pc' = "exited"
    /\ UNCHANGED <<input, config, hasClient, checkpoint, triageReply, triage,
                   reviewReply, review, result, calls, stdin, stderr, timer,
                   sanitized, passes, regexSource, regexOutcome>>

\* runHook after processPermissionRequest has returned: the allow document,
\* or the timer is armed
Answer ==
    /\ pc = "done"
    /\ UNCHANGED <<sanitized, passes, regexSource, regexOutcome>>
    /\ IF result.decision = "allow"
       THEN /\ stdout' = Append(stdout, createHookOutput("allow", Absent))
            /\ exitCode' = << 0 >>
            /\ pc' = "exited"
            /\ timer' = timer
       ELSE /\ timer' = << EffectiveTimeout(result) >>
            /\ pc' = "timer"
            /\ UNCHANGED <<stdout, exitCode>>
    /\ UNCHANGED <<input, config, hasClient, checkpoint, triageReply, triage,
                   reviewReply, review, result, calls, stdin, stderr>>

\* the timer of runHook fires: the deny document, and the run ends
TimerFires ==
    /\ pc = "timer"
    /\ UNCHANGED <<sanitized, passes, regexSource, regexOutcome>>
    /\ stdout' = Append(stdout, createHookOutput("deny", DenyMessage(result)))
    /\ exitCode' = << 0 >>
    /\ pc' = "exited"
    /\ UNCHANGED <<input, config, hasClient, checkpoint, triageReply, triage,
                   reviewReply, review, result, calls, stdin, stderr, timer>>

\* the rejection of main() is caught: console.error and process.exit(1)
MainCatch ==
    /\ pc = "threw"
    /\ UNCHANGED <<sanitized, passes, regexSource, regexOutcome>>
    /\ stderr' = Append(stderr, "Error: TypeError")
    /\ exitCode' = << 1 >>
    /\ pc' = "exited"
    /\ UNCHANGED <<input, config, hasClient, checkpoint, triageReply, triage,
                   reviewReply, review, result, calls, stdin, stdout, timer>>

Next ==
    \/ RejectInput
    \/ Process
    \/ TriageResponds
    \/ ReviewResponds
    \/ Answer
    \/ TimerFires
    \/ MainCatch

Spec == Init /\ [][Next]_vars

\* the event loop runs every continuation and every timer that is due
FairSpec == Spec /\ WF_vars(Answer) /\ WF_vars(TimerFires)

-----------------------------------------------------------------------------
(* The sanitizer on its own: sanitizeForPrompt applied to a text, and again
   to its own output *)

SanitizerInit ==
    /\ pc = "sanitizer"
    /\ sanitized \in SanitizerInputs
    /\ passes = 0
    /\ regexSource = <<>>
    /\ regexOutcome = "untested"
    /\ stdin = "empty"
    /\ input = NoInput
    /\ config = DEFAULT_CONFIG
    /\ hasClient = FALSE
    /\ checkpoint = NoCheckpoint
    /\ triageReply = NoReply
    /\ triage = NoTriage
    /\ reviewReply = NoReply
    /\ review = NoReview
    /\ result = NoResult
    /\ calls = <<>>
    /\ stdout = <<>>
    /\ stderr = <<>>
    /\ timer = <<>>
    /\ exitCode = <<>>

Sanitize ==
    /\ pc = "sanitizer"
    /\ passes < MaxPasses
    /\ sanitized' = sanitizeForPrompt(sanitized)
    /\ passes' = passes + 1
    /\ UNCHANGED <<pc, input, config, hasClient, checkpoint, triageReply, triage,
                   reviewReply, review, result, calls, stdin, stdout, stderr, timer,
                   exitCode, regexSource, regexOutcome>>

SanitizerSpec == SanitizerInit /\ [][Sanitize]_vars

-----------------------------------------------------------------------------
(* safeRegexTest on its own: what becomes of a custom pattern, character by
   character.  The sources are built from an optional literal, a group that
   captures or not, a body, a quantifier inside the group, the closing
   parenthesis, a quantifier outside, and an optional end anchor. *)

Quantifiers == { "+", "*" }

\* the characters a dot does not match
LineTerminators == { NL }

OptionalQuantifier == { <<>>, << "+" >>, << "*" >> }

GroupBodies ==
    { <<>>, << "a" >>, << NL >>, << "a", NL >>, << "a", "|", "b" >>,
      << "a", ")", "(", "b" >> }

PatternSources ==
    { pre \o << "(" >> \o nc \o body \o q1 \o close \o q2 \o post :
        pre \in { <<>>, << "a" >> }, nc \in { <<>>, << "?", ":" >> },
        body \in GroupBodies, q1 \in OptionalQuantifier,
        close \in { <<>>, << ")" >> }, q2 \in OptionalQuantifier,
        post \in { <<>>, << "$" >> } }

\* parentheses opened and not yet closed after the first n characters
OpenGroups(p, n) ==
    Cardinality({ k \in 1..n : p[k] = "(" }) - Cardinality({ k \in 1..n : p[k] = ")" })

\* new RegExp(pattern, 'i') does not throw: the groups are balanced, (? opens
\* a non-capturing group only, and every quantifier has something to repeat
RegExpCompiles(p) ==
    /\ \A n \in 1..Len(p) : OpenGroups(p, n) >= 0
    /\ OpenGroups(p, Len(p)) = 0
    /\ \A k \in 1..Len(p) :
          /\ p[k] = "?" => k > 1 /\ p[k-1] = "(" /\ k < Len(p) /\ p[k+1] = ":"
          /\ p[k] \in Quantifiers =>
                /\ k > 1
                /\ p[k-1] \notin { "(", "|", "$" } \cup Quantifiers
                /\ ~(k > 2 /\ p[k-1] = ":" /\ p[k-2] = "?")

\* /(\(.+[+*]\))[+*]|\(\?:[^)]+[+*]\)[+*]/.test(pattern)
NestedQuantifierTest(p) ==
    \/ \E i \in 1..Len(p), j \in 1..Len(p) :
          /\ p[i] = "("
          /\ j >= i + 2 /\ j + 2 <= Len(p)
          /\ \A k \in (i+1)..(j-1) : p[k] \notin LineTerminators
          /\ p[j] \in Quantifiers /\ p[j+1] = ")" /\ p[j+2] \in Quantifiers
    \/ \E i \in 1..Len(p), j \in 1..Len(p) :
          /\ i + 2 <= Len(p)
          /\ p[i] = "(" /\ p[i+1] = "?" /\ p[i+2] = ":"
          /\ j >= i + 4 /\ j + 2 <= Len(p)
          /\ \A k \in (i+3)..(j-1) : p[k] # ")"
          /\ p[j] \in Quantifiers /\ p[j+1] = ")" /\ p[j+2] \in Quantifiers

\* the path safeRegexTest takes: the catch block, the pre-check, or regex.test
safeRegexOutcome(p) ==
    IF ~RegExpCompiles(p) THEN "threw"
    ELSE IF NestedQuantifierTest(p) THEN "skipped"
    ELSE "applied"

PatternInit ==
    /\ pc = "pattern"
    /\ regexSource \in PatternSources
    /\ regexOutcome = "untested"
    /\ sanitized = <<>>
    /\ passes = 0
    /\ stdin = "empty"
    /\ input = NoInput
    /\ config = DEFAULT_CONFIG
    /\ hasClient = FALSE
    /\ checkpoint = NoCheckpoint
    /\ triageReply = NoReply
    /\ triage = NoTriage
    /\ reviewReply = NoReply
    /\ review = NoReview
    /\ result = NoResult
    /\ calls = <<>>
    /\ stdout = <<>>
    /\ stderr = <<>>
    /\ timer = <<>>
    /\ exitCode = <<>>

TestPattern ==
    /\ pc = "pattern"
    /\ regexOutcome = "untested"
    /\ regexOutcome' = safeRegexOutcome(regexSource)
    /\ stderr' = IF regexOutcome' = "skipped"
                 THEN Append(stderr, "Warning: Skipping potentially dangerous regex pattern")
                 ELSE stderr
    /\ UNCHANGED <<pc, input, config, hasClient, checkpoint, triageReply, triage,
                   reviewReply, review, result, calls, stdin, stdout, timer,
                   exitCode, sanitized, passes, regexSource>>

PatternSpec == PatternInit /\ [][TestPattern]_vars

-----------------------------------------------------------------------------
(* Properties *)

Done == pc = "done"

IsBash == input.tool_name = BashTool

Allowed == Done /\ result.decision = "allow"

\* C1: every Bash command that matches a built-in high-risk pattern, and that
\* no custom allow pattern matches, ends with a decision other than allow,
\* the source high-risk and no remote call made; no earlier stage (the
\* instant-allow filter) answers allow first.
C1_HighRiskNeverAllowed ==
    ( /\ Done
      /\ IsBash
      /\ FirstMatching(config.customPatterns.allow, input.command) = 0
      /\ checkHighRiskPatterns(input.command).detected )
    => ( /\ result.decision # "allow"
         /\ result.source = "high-risk"
         /\ calls = <<>> )

\* the git subcommands that can run repository hooks or fetch remote content
HookBearingGit(command) ==
    /\ Len(command) >= 2
    /\ command[1] = "git"
    /\ \/ command[2] \in { "commit", "checkout", "merge", "rebase", "pull", "fetch",
                           "add", "stash", "cherry-pick", "tag" }
       \/ Len(command) >= 3 /\ command[2] = "remote" /\ command[3] = "add"

\* C2: the instant-allow filter never allows a git command whose subcommand
\* is commit, checkout, merge, rebase, pull, fetch, add, stash, cherry-pick,
\* tag or remote add, and no such request ends as allow by the filter.
C2_HookBearingGitNotInstantAllowed ==
    ( IsBash /\ HookBearingGit(input.command) )
    => ( /\ ~checkInstantAllow(input.command)
         /\ ( FirstMatching(config.customPatterns.allow, input.command) = 0
              => ~(Allowed /\ result.source = "instant-allow") ) )

\* a single command: after trimming, no chaining or substitution word and no
\* newline followed by further words
SingleCommand(command) ==
    \A i \in 1..Len(Trim(command)) :
        Trim(command)[i] \notin ChainingWords \cup { "||", NL }

\* C3: checkInstantAllow allows only a pure single command: none with
\* ; && || | a backquote, $( or an embedded newline that starts a second
\* command.
C3_InstantAllowOnlySingleCommand ==
    ( IsBash /\ checkInstantAllow(input.command) ) => SingleCommand(input.command)

\* C4: a request is allowed with source trusted-domain only if every URL of
\* the command is on a trusted domain, there is at least one URL, and no URL
\* matches a risky URL pattern.
C4_TrustedDomainOnlyUnrisky ==
    ( Allowed /\ result.source = "trusted-domain" )
    => ( /\ checkTrustedDomains(input.command).allTrusted
         /\ Len(checkTrustedDomains(input.command).urls) > 0
         /\ ~checkTrustedDomains(input.command).hasRiskyUrls )

\* C5: a result has source trusted-domain only when the checkpoint found for
\* the command is of kind network; a command of another kind whose URLs are
\* all trusted goes on to the review stages.
C5_TrustedDomainOnlyNetwork ==
    ( Done /\ result.source = "trusted-domain" )
    => ( IsBash /\ checkpoint.type = "network" /\ detectCheckpoint(input.command).type = "network" )

\* a command of kind script_execution, all of whose URLs are trusted, has
\* ended without the trusted-domain short cut
C5_Witness ==
    /\ Done
    /\ IsBash
    /\ checkpoint.type = "script_execution"
    /\ checkTrustedDomains(input.command).allTrusted
    /\ Len(checkTrustedDomains(input.command).urls) > 0
    /\ result.source \in { "checkpoint", "haiku", "sonnet" }

\* the reply of the review call carries the verdict ALLOW
ReviewSaidAllow ==
    /\ ~reviewReply.threw
    /\ JsonParses(GreedyBraceMatch(reviewReply.text))
    /\ Member(GreedyBraceMatch(reviewReply.text), "verdict") = "ALLOW"

TriageSaidSelfHandle ==
    /\ calls # <<>>
    /\ calls[1] = "triage"
    /\ pc # "triage_wait"
    /\ ~triageReply.threw
    /\ JsonParses(GreedyBraceMatch(triageReply.text))
    /\ Member(GreedyBraceMatch(triageReply.text), "classification") = "SELF_HANDLE"

\* C7: no command for which the force-escalate predicate holds is allowed
\* with source haiku; a SELF_HANDLE reply for such a command is turned into
\* ESCALATE with forced_escalation among the risk indicators, and the review
\* call follows.
C7_ForceEscalateOverridesSelfHandle ==
    /\ ( Allowed /\ result.source = "haiku" ) => ~shouldForceEscalate(input.command)
    /\ ( TriageSaidSelfHandle /\ shouldForceEscalate(input.command) )
       => ( /\ triage.classification = "ESCALATE"
            /\ \E i \in 1..Len(triage.riskIndicators) :
                   triage.riskIndicators[i] = "forced_escalation"
            /\ calls = << "triage", "review" >> )

\* the triage said SELF_HANDLE for a command that must be escalated
C7_Witness ==
    /\ TriageSaidSelfHandle
    /\ shouldForceEscalate(input.command)
    /\ triage.classification = "ESCALATE"
    /\ Done
    /\ result.source = "sonnet"

\* the review call has settled
ReviewSettled == calls # <<>> /\ calls[Len(calls)] = "review" /\ Done

\* the reply of the review call is a failure: an error or a timeout of the
\* call, an empty reply, no JSON object, JSON that does not parse, no verdict
\* or an unknown verdict
ReviewReplyFailed ==
    \/ reviewReply.threw
    \/ reviewReply.text = <<>>
    \/ GreedyBraceMatch(reviewReply.text) = <<>>
    \/ ~JsonParses(GreedyBraceMatch(reviewReply.text))
    \/ Member(GreedyBraceMatch(reviewReply.text), "verdict") \notin { "ALLOW", "ASK_USER", "BLOCK" }

\* C8: on every failure of the review stage reviewWithSonnet returns
\* ASK_USER with risk level medium and a fallback user message, and the
\* decision of the request is not allow.
C8_ReviewFailureAsksUser ==
    ( ReviewSettled /\ ReviewReplyFailed )
    => ( /\ review.verdict = "ASK_USER"
         /\ review.riskLevel = "medium"
         /\ review.userMessage \in { FallbackMessage, TimeoutMessage }
         /\ result.decision # "allow" )

\* the triage call has settled
TriageSettled == calls # <<>> /\ calls[1] = "triage" /\ pc # "triage_wait"

\* the reply of the triage call is a failure: an error or a timeout of the
\* call, an empty reply, no JSON object, JSON that does not parse, no
\* classification or an unknown one
TriageReplyFailed ==
    \/ triageReply.threw
    \/ triageReply.text = <<>>
    \/ GreedyBraceMatch(triageReply.text) = <<>>
    \/ ~JsonParses(GreedyBraceMatch(triageReply.text))
    \/ Member(GreedyBraceMatch(triageReply.text), "classification")
           \notin { "SELF_HANDLE", "ESCALATE", "BLOCK" }

\* C9: on every failure of the triage stage triageWithHaiku returns
\* ESCALATE (never SELF_HANDLE, never BLOCK) with the risk indicators
\* triage_error or triage_timeout, and the handler goes on to the review call.
C9_TriageFailureEscalates ==
    ( TriageSettled /\ TriageReplyFailed )
    => ( /\ triage.classification = "ESCALATE"
         /\ triage.riskIndicators \in { << "triage_error" >>, << "triage_timeout" >> }
         /\ triage.riskIndicators = << "triage_timeout" >>
            <=> ( triageReply.threw /\ IsTimeoutMessage(triageReply.message) )
         /\ calls = << "triage", "review" >>
         /\ result.source # "haiku" )

\* the triage call timed out and the request went on to the review
C9_Witness ==
    /\ TriageSettled
    /\ triageReply.threw
    /\ triage.classification = "ESCALATE"
    /\ triage.riskIndicators = << "triage_timeout" >>
    /\ pc = "review_wait"

\* C10: a Bash command for which a checkpoint is found, no earlier stage
\* having returned and no credential being available, ends with a decision
\* other than allow, the source checkpoint, the checkpoint attached, the
\* default timeout and no remote call.
C10_CheckpointWithoutCredential ==
    ( /\ Done
      /\ IsBash
      /\ checkpoint # NoCheckpoint
      /\ result.source # "trusted-domain"
      /\ ~hasClient )
    => ( /\ result.decision = "needs-review"
         /\ result.source = "checkpoint"
         /\ result.checkpoint = checkpoint
         /\ result.checkpoint = detectCheckpoint(input.command)
         /\ EffectiveTimeout(result) = TIMEOUT_SECONDS
         /\ calls = <<>> )

\* a request stopped at its checkpoint for want of a credential
C10_Witness ==
    /\ Done
    /\ IsBash
    /\ ~hasClient
    /\ checkpoint.type = "git_operation"
    /\ result.source = "checkpoint"
    /\ result.checkpoint = checkpoint

\* a parsed JSON value has been handed to processPermissionRequest
Handled == JsonParseSucceeds(stdin) /\ pc # "start"

\* C11: processPermissionRequest returns a decision for every parsed JSON
\* value (also one that lacks tool_name or tool_input, or whose command or
\* file_path is absent or not a string) and never raises, so that the check
\* command never exits with a code other than 0.
C11_HandlerNeverRaises ==
    Handled => pc # "threw" /\ exitCode # << 1 >>

\* stdin holds no JSON, or a Bash request without a string command, or a
\* Write/Edit/Read request without a string file_path
MalformedInput ==
    \/ ~JsonParseSucceeds(stdin)
    \/ /\ stdin = "object"
       /\ input.has.tool_name = "string"
       /\ \/ input.tool_name = BashTool /\ input.has.command # "string"
          \/ input.tool_name \in FileTools /\ input.has.file_path # "string"

\* C12: every malformed input (invalid JSON, a Bash request without a
\* command, a Write/Edit/Read request without a file_path) is answered with
\* a deny document and never with allow.
C12_MalformedInputDenied ==
    MalformedInput =>
        /\ Done => result.decision # "allow"
        /\ pc = "exited" => /\ Len(stdout) = 1
                            /\ stdout[1].behavior = "deny"

\* processPermissionRequest has returned for a Write, Edit or Read request
\* that carries a path
FileRequestDone ==
    /\ Done
    /\ stdin = "object"
    /\ input.tool_name \in FileTools
    /\ input.has.file_path = "string"

\* the path set that checkFilePath consults for the request
PathSetOfRequest ==
    IF input.tool_name = <<"Read">> THEN READ_SENSITIVE_PATHS ELSE WRITE_SENSITIVE_PATHS

\* some entry of the given severity in the request's path set matches its path
MatchedWithSeverity(severity) ==
    \E n \in 1..Len(PathSetOfRequest) :
        /\ PathSetOfRequest[n].severity = severity
        /\ PathTest(PathSetOfRequest[n], normalizePath(input.file_path))

\* C13: a path matched both by a critical and by a high entry of its path
\* set is reported with the critical severity.
C13_CriticalBeforeHigh ==
    FileRequestDone /\ MatchedWithSeverity("critical") /\ MatchedWithSeverity("high") =>
        /\ result.decision = "needs-review"
        /\ result.reason =
             "[SENSITIVE FILE] " \o checkFileTool(input.tool_name, input.file_path).reason

\* the action checkFileTool passes to checkFilePath for a tool
ActionOfTool(toolName) ==
    CASE toolName = <<"Write">> -> "write"
      [] toolName = <<"Edit">>  -> "edit"
      [] toolName = <<"Read">>  -> "read"

\* C14: the path check does not depend on how the home directory or the
\* separators are spelt: a file that is blocked when named through ~ is
\* blocked, for the same action, when named through $HOME, ${HOME}, repeated
\* slashes, the absolute home directory or a .. traversal.
C14_SpellingInvariant ==
    FileRequestDone =>
        \A prefix \in HomePrefixes, target \in HomeTargets :
            /\ input.file_path = prefix \o target
            /\ checkFilePath(<< "~", SEP >> \o target, ActionOfTool(input.tool_name)).blocked
            => result.decision = "needs-review"

\* the list with its k-th entry moved up to position i (i <= k)
MoveUp(list, k, i) ==
    [ n \in 1..Len(list) |->
        IF n < i \/ n > k THEN list[n] ELSE IF n = i THEN list[k] ELSE list[n - 1] ]

\* The reorderings of a list that are considered.  The first match of a list
\* under any permutation is the first match of the reordering that moves that
\* entry to the front, so these cover what a first-match loop can return.
Reorderings(list) ==
    { MoveUp(list, q[1], q[2]) :
        q \in { q \in (1..Len(list)) \X (1..Len(list)) : q[2] <= q[1] } }

\* a reordering of checkpoint patterns that keeps the relative order of every
\* two patterns of different types
KeepsTypeOrder(list, reordered) ==
    \A a, b \in 1..Len(list) :
        a < b /\ list[a].type # list[b].type =>
            \E c, d \in 1..Len(reordered) :
                c < d /\ reordered[c] = list[a] /\ reordered[d] = list[b]

\* the reorderings of the checkpoint patterns that keep the type order
TypePreservingReorderings ==
    { cps \in Reorderings(CHECKPOINT_PATTERNS) : KeepsTypeOrder(CHECKPOINT_PATTERNS, cps) }

\* Process has just handled a Bash request that carries a command
BashAfterProcess ==
    /\ stdin = "object"
    /\ IsBash /\ input.has.command = "string"
    /\ \/ pc = "done" /\ calls = <<>>
       \/ pc = "triage_wait"
       \/ pc = "review_wait" /\ calls = << "review" >>

\* what the handler did with the request: it allowed, it did not allow, or
\* it went on to ask the LLM about a checkpoint of some type
Behaviour(local, cp) ==
    IF local = NoResult THEN << "llm", cp.type >>
    ELSE IF local.decision = "allow" THEN << "allow" >> ELSE << "not allowed" >>

ActualBehaviour ==
    Behaviour(IF pc = "done" THEN result ELSE NoResult, checkpoint)

\* the behaviour of steps 3 to 8 were the two lists ordered as given
ReorderedBehaviour(highRiskPatterns, checkpointPatterns) ==
    LET local == BashBeforeReviewIn(highRiskPatterns, checkpointPatterns,
                                    input.command, config, hasClient)
    IN  Behaviour(local, detectCheckpointIn(checkpointPatterns, input.command))

\* the decision of step 1 were the path set of the request ordered as given
ReorderedFileDecision(paths) ==
    IF input.file_path = <<>> THEN "allow"
    ELSE FileCheckResult(checkFilePathIn(paths, paths, input.file_path,
                                         ActionOfTool(input.tool_name)), "").decision

\* C15 as stated: whether a request is allowed does not change under any
\* reordering of the built-in pattern lists (path sets, high-risk corpus,
\* checkpoint patterns).
C15_AnyReordering ==
    /\ BashAfterProcess =>
          \A hr \in Reorderings(INSTANT_BLOCK_PATTERNS), cps \in Reorderings(CHECKPOINT_PATTERNS) :
              ReorderedBehaviour(hr, cps) = ActualBehaviour
    /\ FileRequestDone =>
          \A paths \in Reorderings(PathSetOfRequest) :
              ReorderedFileDecision(paths) = result.decision

\* C15, amended: whether a request is allowed does not change under any
\* reordering of the path sets and of the high-risk corpus, nor under a
\* reordering of the checkpoint patterns that keeps the relative order of
\* every two patterns of different types.
C15_TypePreservingReordering ==
    /\ BashAfterProcess =>
          \A hr \in Reorderings(INSTANT_BLOCK_PATTERNS), cps \in TypePreservingReorderings :
              ReorderedBehaviour(hr, cps) = ActualBehaviour
    /\ FileRequestDone =>
          \A paths \in Reorderings(PathSetOfRequest) :
              ReorderedFileDecision(paths) = result.decision

\* a reordering that keeps the type order changes which checkpoint pattern
\* matches first, and a reordering of a path set changes which entry does
C15_Witness ==
    /\ BashAfterProcess /\ pc # "done"
    /\ \E cps \in TypePreservingReorderings :
           /\ cps # CHECKPOINT_PATTERNS
           /\ detectCheckpointIn(cps, input.command) # checkpoint

\* C16: every result other than allow (deny or needs-review), those that
\* come from LLM replies included, carries a reason that is not empty.
C16_NonAllowHasReason ==
    Done /\ result.decision # "allow" => result.reason # ""

\* C17: every run of check writes exactly one JSON document to stdout, with
\* the behavior allow or deny, whatever stdin holds and however the run
\* ends; nothing else is written to stdout.
C17_ExactlyOneDocument ==
    /\ Len(stdout) <= 1
    /\ pc = "exited" => /\ Len(stdout) = 1
                        /\ stdout[1].behavior \in { "allow", "deny" }

\* C18: sanitizeForPrompt is idempotent: applied to its own output it returns
\* that output, also for inputs longer than the clamp and inputs that hold
\* CDATA ends.
C18_SanitizeIdempotent ==
    passes >= 1 => sanitizeForPrompt(sanitized) = sanitized

\* C19: the output of sanitizeForPrompt is never longer than
\* MAX_COMMAND_LENGTH plus the truncation marker (at most
\* MAX_COMMAND_LENGTH + 20 characters).
C19_SanitizeBounded ==
    passes >= 1 => Len(sanitized) <= MAX_COMMAND_LENGTH + 20

\* some pattern of the list matches the command of the request under
\* safeRegexTest
CustomMatch(list) ==
    \E n \in 1..Len(list) : safeRegexTest(list[n], input.command)

\* the result names a pattern of the list that matches the command
DecidedByCustom(list, prefix) ==
    \E n \in 1..Len(list) :
        /\ safeRegexTest(list[n], input.command)
        /\ result.reason = prefix \o list[n]

\* C20: the custom rule layer is decided before every built-in shell check: a
\* command that a custom allow pattern matches is allowed, and a command that
\* only a custom block pattern matches is not allowed, by the custom layer and
\* without a remote call, whatever instant-allow, the high-risk scan or the
\* checkpoint classifier would have returned for it.
C20_CustomRulesFirst ==
    Done /\ IsBash /\ input.has.command = "string" =>
        /\ CustomMatch(config.customPatterns.allow) =>
              /\ result.decision = "allow"
              /\ DecidedByCustom(config.customPatterns.allow, "Custom allow pattern: ")
              /\ calls = <<>>
        /\ ~CustomMatch(config.customPatterns.allow) /\ CustomMatch(config.customPatterns.block) =>
              /\ result.decision = "needs-review"
              /\ DecidedByCustom(config.customPatterns.block, "Custom block pattern: ")
              /\ calls = <<>>

\* a command that a custom allow pattern matches is allowed although the
\* high-risk scan detects it
C20_Witness ==
    /\ Done /\ IsBash /\ input.has.command = "string"
    /\ CustomMatch(config.customPatterns.allow)
    /\ checkHighRiskPatterns(input.command).detected
    /\ result.decision = "allow"

\* a command that a custom block pattern matches is not allowed although it
\* would end at the trusted-domain short cut
C20_WitnessBlock ==
    /\ Done /\ IsBash /\ input.has.command = "string"
    /\ CustomMatch(config.customPatterns.block)
    /\ TrustedShortCircuit(detectCheckpoint(input.command), checkTrustedDomains(input.command))
    /\ result.decision = "needs-review"

\* the patterns of a list
PatternsOf(list) == { list[n] : n \in 1..Len(list) }

\* C21: the custom allow list is evaluated before the custom block list: a
\* command that both a custom allow pattern and a custom block pattern match
\* is allowed by the allow pattern, and the block list is tried (a pattern of
\* it tested or skipped with a warning) only when no allow pattern matches.
C21_AllowListFirst ==
    Done /\ IsBash /\ input.has.command = "string"
         /\ CustomMatch(config.customPatterns.allow) =>
        /\ result.decision = "allow"
        /\ DecidedByCustom(config.customPatterns.allow, "Custom allow pattern: ")
        /\ \A n \in 1..Len(stderr) :
              stderr[n] \in PatternsOf(config.customPatterns.block)
                  => stderr[n] \in PatternsOf(config.customPatterns.allow)

\* a command that a custom allow pattern and a custom block pattern both
\* match has been allowed
C21_Witness ==
    /\ Done /\ IsBash /\ input.has.command = "string"
    /\ CustomMatch(config.customPatterns.allow)
    /\ CustomMatch(config.customPatterns.block)
    /\ \E n \in 1..Len(config.customPatterns.block) :
           config.customPatterns.block[n] \in NestedQuantifierSources
    /\ result.decision = "allow"

\* the forms the guard is there for: a group, capturing or not, whose body
\* ends in + or * and which is itself repeated: (...+)+, (...*)+, (...+)*
NestedQuantifierForm(p) ==
    \E i \in 1..Len(p), j \in 1..Len(p) :
        /\ p[i] = "("
        /\ j + 2 <= Len(p)
        /\ j >= (IF i + 2 <= Len(p) /\ p[i+1] = "?" /\ p[i+2] = ":" THEN i + 4 ELSE i + 2)
        /\ << p[j], p[j+2] >> \in { << "+", "+" >>, << "*", "+" >>, << "+", "*" >> }
        /\ p[j+1] = ")"

\* C22: safeRegexTest answers no-match for every custom pattern holding a
\* nested quantifier of the form (...+)+, (...*)+, (...+)* or the non-capturing
\* variant, and never applies such a pattern to the command.
C22_NestedQuantifierNeverApplied ==
    regexOutcome # "untested" /\ NestedQuantifierForm(regexSource)
        => regexOutcome # "applied"

HoldsShortenerUrl(command) ==
    \E n \in 1..Len(command) :
        /\ command[n] \in UrlWords
        /\ \E provider \in URL_SHORTENERS :
              \/ extractHostname(command[n]) = provider
              \/ IsSubdomainOf(extractHostname(command[n]), provider)

PlanExitRequest ==
    stdin = "object" /\ input.has.tool_name = "string" /\ input.tool_name = << "ExitPlanMode" >>

\* C25: a request for ExitPlanMode is always answered needs-review with a
\* timeout of 72 hours and the PLAN APPROVAL REQUIRED user message, whatever
\* tool_input and the config are, and no other request gets a timeout other
\* than the default of 7 seconds.
C25_PlanExitTimeout ==
    /\ PlanExitRequest =>
          /\ pc # "threw"
          /\ pc \in { "done", "timer", "exited" } =>
                /\ result.decision = "needs-review"
                /\ result.userMessage = "[PLAN APPROVAL REQUIRED]"
                /\ result.timeoutSeconds = << 259200 >>
                /\ calls = <<>>
          /\ pc \in { "timer", "exited" } => timer = << 259200 >>
          /\ pc = "exited" =>
                stdout = << createHookOutput("deny",
                              "Auto-denied (no response in h) Reason: [PLAN APPROVAL REQUIRED]") >>
    /\ ~PlanExitRequest =>
          /\ result.timeoutSeconds = <<>>
          /\ timer \in { <<>>, << 7 >> }

\* a plan exit sent without tool_input, under a config with custom patterns
\* and approved MCP tools, waits out its 72 hours
C25_Witness ==
    /\ PlanExitRequest
    /\ input.has.tool_input = "absent"
    /\ config # DEFAULT_CONFIG
    /\ pc = "timer"
    /\ timer = << 72 * 60 * 60 >>

\* the host is one of the user's trustedDomains
ListedByUser(hostname) ==
    \E n \in 1..Len(config.trustedDomains) : config.trustedDomains[n] = hostname

\* C26: a network-checkpoint command whose only URLs are on hosts listed in
\* the user's trustedDomains, with no risky subdomain and no risky URL
\* pattern, is allowed with source trusted-domain.
C26_UserTrustedDomainAllowed ==
    ( /\ Done /\ IsBash /\ input.has.command = "string"
      /\ checkpoint.type = "network"
      /\ extractUrls(input.command) # <<>>
      /\ \A n \in 1..Len(extractUrls(input.command)) :
            LET url == extractUrls(input.command)[n]
            IN  /\ ListedByUser(extractHostname(url))
                /\ ~isRiskySubdomain(extractHostname(url))
                /\ ~isRiskyUrlPattern(url) )
    => ( result.decision = "allow" /\ result.source = "trusted-domain" )

\* C27: a request makes at most two remote calls, each at most once and the
\* triage call before the review call; the review call is issued only once
\* triageWithHaiku has returned ESCALATE, and a triage result of SELF_HANDLE or
\* BLOCK ends the request with allow or deny, source haiku, no review call made.
C27_TriageThenReview ==
    /\ calls \in { <<>>, << "triage" >>, << "review" >>, << "triage", "review" >> }
    /\ pc = "triage_wait" => calls = << "triage" >> /\ triage = NoTriage
    /\ ( \E n \in 1..Len(calls) : calls[n] = "review" ) =>
          /\ triage.classification = "ESCALATE"
          /\ calls = << "review" >> => triageReply = NoReply
          /\ calls = << "triage", "review" >> => triageReply # NoReply
    /\ triage.classification \in { "SELF_HANDLE", "BLOCK" } =>
          /\ calls = << "triage" >>
          /\ pc \in { "done", "timer", "exited" }
          /\ reviewReply = NoReply
          /\ result.source = "haiku"
          /\ result.decision =
                ( IF triage.classification = "SELF_HANDLE" THEN "allow" ELSE "deny" )

\* a request that made both calls in turn has been answered by the review
C27_Witness ==
    /\ Done
    /\ calls = << "triage", "review" >>
    /\ triage.classification = "ESCALATE"
    /\ result.source = "sonnet"

\* a request ended by the triage result BLOCK
C27_WitnessBlock ==
    /\ Done
    /\ calls = << "triage" >>
    /\ triage.classification = "BLOCK"
    /\ result.decision = "deny"

\* C28: both stages take the first balanced JSON object of the reply, as
\* extractJsonFromText finds it: when that object is valid and names a
\* classification (a verdict), the stage returns that classification (but for
\* the override of SELF_HANDLE on a risky command) or that verdict, also when
\* text or braces follow the object.
C28_FirstObjectDecides ==
    /\ ( /\ TriageSettled /\ ~triageReply.threw
         /\ Member(extractJsonFromText(triageReply.text), "classification")
               \in { "SELF_HANDLE", "ESCALATE", "BLOCK" } )
       => triage.classification =
             ( IF PostResponseOverride(
                      Member(extractJsonFromText(triageReply.text), "classification"),
                      input.command)
               THEN "ESCALATE"
               ELSE Member(extractJsonFromText(triageReply.text), "classification") )
    /\ ( /\ ReviewSettled /\ ~reviewReply.threw
         /\ Member(extractJsonFromText(reviewReply.text), "verdict")
               \in { "ALLOW", "ASK_USER", "BLOCK" } )
       => review.verdict = Member(extractJsonFromText(reviewReply.text), "verdict")

\* step 7 takes the short cut: a network checkpoint, at least one URL, every
\* URL on a trusted host
ShortCutTaken ==
    /\ checkpoint.type = "network"
    /\ extractUrls(input.command) # <<>>
    /\ \A n \in 1..Len(extractUrls(input.command)) :
          isTrustedUrl(extractUrls(input.command)[n])

\* the triage reply says SELF_HANDLE and the command is not force-escalated
SelfHandleStands == TriageSaidSelfHandle /\ ~shouldForceEscalate(input.command)

\* the review has returned the verdict ALLOW
ReviewVerdictAllow == ReviewSettled /\ review.verdict = "ALLOW"

C29_WitnessSelfHandle ==
    /\ Done /\ IsBash /\ checkpoint # NoCheckpoint
    /\ SelfHandleStands
    /\ result.decision = "allow"
    /\ result.source = "haiku"

\* the document runHook owes for the decision of the handler
OwedDocument ==
    IF result.decision = "allow"
    THEN createHookOutput("allow", Absent)
    ELSE createHookOutput("deny", DenyMessage(result))

\* what has been written and armed agrees with the decision at every moment
WireAgreesWithDecision ==
    /\ pc \in { "done", "timer" } => stdout = <<>>
    /\ pc = "done" => timer = <<>>
    /\ pc = "timer" => result.decision # "allow" /\ timer = << EffectiveTimeout(result) >>
    /\ ( pc = "exited" /\ result # NoResult ) =>
          /\ stdout = << OwedDocument >>
          /\ exitCode = << 0 >>
          /\ timer = ( IF result.decision = "allow" THEN <<>>
                       ELSE << IF PlanExitRequest THEN 72 * 60 * 60 ELSE 7 >> )
    /\ \A n \in 1..Len(stdout) :
          stdout[n].behavior = "allow" => result.decision = "allow"

\* C30: runHook writes the allow document exactly when the decision of the
\* handler is allow, and without arming a timer; for a deny or needs-review
\* decision it writes the deny document, only once the timer armed with the
\* timeout of the decision (7 seconds, 72 hours for ExitPlanMode) has fired;
\* every run whose handler has returned ends with its document written.
C30_AnswerOnTheWire ==
    /\ [] WireAgreesWithDecision
    /\ Done ~> ( pc = "exited" /\ stdout = << OwedDocument >> )

\* a needs-review decision has been answered with deny after its 7 seconds
C30_Witness ==
    /\ pc = "exited"
    /\ result.decision = "needs-review"
    /\ timer = << 7 >>
    /\ stdout = << OwedDocument >>
    /\ stdout[1].behavior = "deny"

=============================================================================
